---- MODULE Spec2Model ----
(***************************************************************************)
(* Gym-Bot: a Telegram bot that walks a user through a training schedule   *)
(* set by set and records the weight of every set.                         *)
(*                                                                         *)
(* The model follows the bot update by update.  One step of Next is one    *)
(* Telegram update (a text message or a button tap) routed through the     *)
(* routers in the order main.py registers them, and handled by the first   *)
(* handler whose filter matches: a handler that returns, even without      *)
(* doing anything, has consumed the update.                                *)
(*                                                                         *)
(* The in-memory dictionaries start empty.  The SQLite file outlives the   *)
(* process (CREATE TABLE IF NOT EXISTS), so the tables start with the rows *)
(* of an earlier run: SeedPrograms, SeedButtonExercises, ...               *)
(*                                                                         *)
(* Weights are kept in tenths of a kilogram: "60" is 600.                 *)
(***************************************************************************)
EXTENDS Integers, Sequences, FiniteSets, TLC

\* ---------------------------------------------------------------- bounds
\* the wall clock, read in whole seconds by strftime("%Y-%m-%d %H:%M:%S"),
\* runs from 0 to MaxClock
MaxClock == 1
\* at most MaxWrites weights are written to results and button_workout_results
\* on top of the rows they start with
MaxWrites == 2
\* the same, in the runs in which two users send updates
MaxWritesUsers == 1

Users == {1, 2}
\* the user of the runs in which one user sends updates
Solo == {1}
Days == {"Monday", "Tuesday"}

\* SQL NULL, Python None
NULL == -1

\* ------------------------------------------------------ texts a user sends
\* A text is a tuple of one-character strings.
WeightTexts ==
    { <<"6", "0">>, <<"0">>, <<"-", "5">>, <<"+", "6", "0">>, <<"n", "a", "n">> }

\* the label of the reply-keyboard button "Перезагрузить бота", which Telegram
\* sends as an ordinary text message
RestartText == <<"r", "e", "s", "t", "a", "r", "t">>

\* the command /stats
StatsCommand == <<"/", "s", "t", "a", "t", "s">>

Digits == <<"0", "1", "2", "3", "4", "5", "6", "7", "8", "9">>

IsDigit(c) == \E i \in 1..10 : Digits[i] = c

DigitVal(c) == (CHOOSE i \in 1..10 : Digits[i] = c) - 1

AllDigits(s) == Len(s) >= 1 /\ \A i \in 1..Len(s) : IsDigit(s[i])

RECURSIVE DecVal(_)
DecVal(s) == IF Len(s) = 0 THEN 0
             ELSE 10 * DecVal(SubSeq(s, 1, Len(s) - 1)) + DigitVal(s[Len(s)])

\* the filter F.text.regexp(r'^\d+([.,]\d+)?$')
MatchesWeightRegex(s) ==
    \/ AllDigits(s)
    \/ \E k \in 2..(Len(s) - 1) :
          /\ s[k] \in {".", ","}
          /\ AllDigits(SubSeq(s, 1, k - 1))
          /\ AllDigits(SubSeq(s, k + 1, Len(s)))

\* message.text.replace(',', '.')
ReplaceComma(s) == [i \in 1..Len(s) |-> IF s[i] = "," THEN "." ELSE s[i]]

\* float(...) of an unsigned body: digits, or digits '.' digit
\* (texts carry at most one fractional digit); the value is in tenths
UnsignedFloat(s) ==
    IF AllDigits(s) THEN [err |-> FALSE, nan |-> FALSE, val |-> 10 * DecVal(s)]
    ELSE IF /\ Len(s) >= 2
            /\ s[Len(s) - 1] = "."
            /\ IsDigit(s[Len(s)])
            /\ (Len(s) = 2 \/ AllDigits(SubSeq(s, 1, Len(s) - 2)))
         THEN [err |-> FALSE, nan |-> FALSE,
               val |-> 10 * DecVal(SubSeq(s, 1, Len(s) - 2)) + DigitVal(s[Len(s)])]
    ELSE IF /\ Len(s) >= 2
            /\ s[Len(s)] = "."
            /\ AllDigits(SubSeq(s, 1, Len(s) - 1))
         THEN [err |-> FALSE, nan |-> FALSE,
               val |-> 10 * DecVal(SubSeq(s, 1, Len(s) - 1))]
    ELSE IF s = <<"n", "a", "n">> THEN [err |-> FALSE, nan |-> TRUE, val |-> 0]
    ELSE [err |-> TRUE, nan |-> FALSE, val |-> 0]

\* float(message.text.replace(',', '.')): err is ValueError, nan is the
\* not-a-number float, val the value in tenths
ParseFloat(t) ==
    LET s == ReplaceComma(t)
    IN  IF Len(s) >= 1 /\ s[1] \in {"+", "-"}
        THEN LET r == UnsignedFloat(SubSeq(s, 2, Len(s)))
             IN  IF s[1] = "-" THEN [r EXCEPT !.val = 0 - @] ELSE r
        ELSE UnsignedFloat(s)

\* the test `weight <= 0` of the handlers: every comparison with nan is False
NonPositive(f) == ~f.nan /\ f.val <= 0

\* the value sqlite3 stores for a Python float: nan is stored as NULL
StoredWeight(f) == IF f.nan THEN NULL ELSE f.val

\* Python truthiness of a weight or an id: None and 0 are falsy
Truthy(x) == x # NULL /\ x # 0

\* ------------------------------------------------------------- the store
ExerciseNames == <<"Bench", "Squat">>

\* string comparison of exercise names, as ORDER BY exercise_name sees them
NameRank(n) == CHOOSE i \in 1..Len(ExerciseNames) : ExerciseNames[i] = n

\* rows of table workout_programs
SeedWorkoutPrograms ==
    << [id |-> 1, user_id |-> 1, program_name |-> "A", program_type |-> "uploaded"],
       [id |-> 2, user_id |-> 2, program_name |-> "B", program_type |-> "uploaded"] >>

\* rows of table programs, as save_program_with_id writes them
\* (the Tuesday of program 1 is what parse_program makes of
\* "Squat 0x10, Bench 2x10": parse_sets_from_exercise returns 0 for "0x10")
SeedPrograms ==
    << [id |-> 1, program_id |-> 1, user_id |-> 1, day |-> "Monday",
        exercise |-> "Squat", sets |-> 1, order_index |-> 0],
       [id |-> 2, program_id |-> 1, user_id |-> 1, day |-> "Monday",
        exercise |-> "Bench", sets |-> 1, order_index |-> 1],
       [id |-> 3, program_id |-> 1, user_id |-> 1, day |-> "Tuesday",
        exercise |-> "Squat", sets |-> 0, order_index |-> 0],
       [id |-> 4, program_id |-> 1, user_id |-> 1, day |-> "Tuesday",
        exercise |-> "Bench", sets |-> 2, order_index |-> 1],
       [id |-> 5, program_id |-> 2, user_id |-> 2, day |-> "Monday",
        exercise |-> "Bench", sets |-> 1, order_index |-> 0] >>

\* rows of table button_workouts
SeedButtonWorkouts ==
    << [user_id |-> 1, workout_number |-> 1, workout_name |-> "Legs"] >>

\* rows of table button_workout_exercises
SeedButtonExercises ==
    << [user_id |-> 1, workout_number |-> 1, exercise_name |-> "Squat",
        set_number |-> 1, reps |-> 10],
       [user_id |-> 1, workout_number |-> 1, exercise_name |-> "Squat",
        set_number |-> 2, reps |-> 8],
       [user_id |-> 1, workout_number |-> 1, exercise_name |-> "Squat",
        set_number |-> 3, reps |-> 6] >>

\* rows of table button_workout_results left by an earlier run
SeedButtonResults ==
    << [user_id |-> 1, workout_number |-> 1, exercise_name |-> "Squat",
        set_number |-> 1, weight |-> 500, date |-> 0],
       [user_id |-> 1, workout_number |-> 1, exercise_name |-> "Squat",
        set_number |-> 2, weight |-> 550, date |-> 0] >>

ProgramIds == {1, 2}
WorkoutNumbers == {1}

VARIABLES
    today,                      \* get_current_day(): the wall-clock weekday
    fsm,                        \* the FSM state and data of each user
                                \* (MemoryStorage)
    temp_programs,              \* database.temp_programs: {user_id: parsed}
    training_sessions,          \* training.py: {user_id: session}
    button_training_sessions,   \* button_workouts.py: {user_id: session}
    workout_creation_sessions,  \* button_workouts.py: {user_id: the workout
                                \* being created}
    workout_programs,           \* table workout_programs
    programs,                   \* table programs
    button_workouts,            \* table button_workouts
    button_workout_exercises,   \* table button_workout_exercises
    sqlite_sequence,            \* the largest id each AUTOINCREMENT table
                                \* has ever given out
    results,                    \* table results
    button_workout_results,     \* table button_workout_results
    reply,                      \* the messages and alerts sent in answer to
                                \* the last update
    parser_in,                  \* the argument of a call of the parser
    parser_out                  \* what the call returned, once it has

vars == <<today, fsm, temp_programs, training_sessions, button_training_sessions,
          workout_creation_sessions, workout_programs, programs, button_workouts, button_workout_exercises,
          sqlite_sequence, results, button_workout_results, reply,
          parser_in, parser_out>>

store == <<workout_programs, programs, button_workouts, button_workout_exercises,
          sqlite_sequence>>

\* the latest date of a row: no later write carries an earlier date
RECURSIVE MaxDate(_)
MaxDate(rows) ==
    IF Len(rows) = 0 THEN 0
    ELSE LET m == MaxDate(Tail(rows))
         IN  IF rows[1].date > m THEN rows[1].date ELSE m

LastDate ==
    LET a == MaxDate(results)
        b == MaxDate(button_workout_results)
    IN  IF a > b THEN a ELSE b

\* datetime.now() at a write: the second of the previous write or a later
\* one (only the order of the dates matters, so the next second stands for
\* every later one)
Now == {d \in {LastDate, LastDate + 1} : d <= MaxClock}

\* the step leaves at most cap weights written since the start
WritesWithin(cap) ==
    Len(results') + Len(button_workout_results') <= Len(SeedButtonResults) + cap

\* the FSM entry of a user after state.clear(): no state, no data
Cleared == [state |-> "none", program_name |-> <<>>]

\* a dictionary without key k
DictDel(d, k) == [x \in (DOMAIN d) \ {k} |-> d[x]]

\* a dictionary with d[k] = v
DictSet(d, k, v) == [x \in (DOMAIN d) \cup {k} |-> IF x = k THEN v ELSE d[x]]


\* one message or alert sent to the user
Msg(tag) == [tag |-> tag, exercise |-> "", set_number |-> 0, weight |-> NULL]

\* the prompt for one set; weight is the default offered, NULL when none is
Prompt(exercise, set_number, weight) ==
    [tag |-> "prompt", exercise |-> exercise, set_number |-> set_number,
     weight |-> weight]

\* message.answer("Сохранено: <weight> кг")
Saved(weight) ==
    [tag |-> "saved", exercise |-> "", set_number |-> 0, weight |-> weight]

\* callback.answer("Сохранено: <weight> кг"), the acknowledgement of a tap
SavedAlert(weight) ==
    [tag |-> "saved_alert", exercise |-> "", set_number |-> 0, weight |-> weight]

\* what the chat of user_id receives in answer to one update; nobody receives
\* anything when the handler stays silent
Sent(user_id, msgs) ==
    [to |-> IF msgs = <<>> THEN 0 ELSE user_id, msgs |-> msgs]

\* rows sorted by order_index, rows with equal order_index in table order
RECURSIVE OrderByOrderIndex(_)
OrderByOrderIndex(rows) ==
    IF Len(rows) = 0 THEN <<>>
    ELSE LET rest == OrderByOrderIndex(SubSeq(rows, 1, Len(rows) - 1))
             r    == rows[Len(rows)]
             k    == Cardinality({i \in 1..Len(rest) :
                                     rest[i].order_index <= r.order_index})
         IN  SubSeq(rest, 1, k) \o <<r>> \o SubSeq(rest, k + 1, Len(rest))

\* database.get_program_by_id: {day: [exercises]} of the user's program, for
\* one day or, with day = "", for all days
get_program_by_id(progs, user_id, program_id, day) ==
    LET Match(r) == /\ r.user_id = user_id
                    /\ r.program_id = program_id
                    /\ (day = "" \/ r.day = day)
        rows == SelectSeq(progs, Match)
        days == {rows[i].day : i \in 1..Len(rows)}
        Entry(r) == [exercise_id |-> r.id, exercise |-> r.exercise, sets |-> r.sets]
    IN  [d \in days |->
            LET OfDay(r) == r.day = d
                sorted == OrderByOrderIndex(SelectSeq(rows, OfDay))
            IN  [i \in 1..Len(sorted) |-> Entry(sorted[i])]]

\* database.get_user_programs: the user's rows of workout_programs
get_user_programs(wps, user_id) ==
    LET Mine(r) == r.user_id = user_id
    IN  SelectSeq(wps, Mine)

\* save_result as an INSERT OR REPLACE keyed by (user, exercise, set)
save_result_replacing(res, user_id, exercise_id, day, exercise, set_number, weight, date) ==
    LET Other(r) == ~(r.user_id = user_id /\ r.exercise = exercise
                      /\ r.set_number = set_number)
    IN  Append(SelectSeq(res, Other),
               [user_id |-> user_id, exercise_id |-> exercise_id, day |-> day,
                exercise |-> exercise, set_number |-> set_number,
                weight |-> weight, date |-> date])

\* database.save_result: INSERT INTO results
save_result(res, user_id, exercise_id, day, exercise, set_number, weight, date) ==
    Append(res, [user_id |-> user_id, exercise_id |-> exercise_id, day |-> day,
                 exercise |-> exercise, set_number |-> set_number,
                 weight |-> weight, date |-> date])

\* get_last_weight without "user_id = ?" in its WHERE clause
get_last_weight_of_anyone(res, user_id, exercise, set_number) ==
    LET Match(r) == /\ r.exercise = exercise
                    /\ r.set_number = set_number
        rows == SelectSeq(res, Match)
        latest == {i \in 1..Len(rows) : \A j \in 1..Len(rows) : rows[j].date <= rows[i].date}
    IN  IF Len(rows) = 0 THEN {NULL} ELSE {rows[i].weight : i \in latest}

\* get_last_weight with "day = <today>" added to its WHERE clause
get_last_weight_of_today(res, user_id, exercise, set_number) ==
    LET Match(r) == /\ r.user_id = user_id
                    /\ r.exercise = exercise
                    /\ r.set_number = set_number
                    /\ r.day = today
        rows == SelectSeq(res, Match)
        latest == {i \in 1..Len(rows) : \A j \in 1..Len(rows) : rows[j].date <= rows[i].date}
    IN  IF Len(rows) = 0 THEN {NULL} ELSE {rows[i].weight : i \in latest}

\* database.get_last_weight: SELECT weight ... ORDER BY date DESC LIMIT 1.
\* SQL leaves the order of rows with the same date open, so the result is any
\* of the weights that carry the latest date; {NULL} when there is no row.
get_last_weight(res, user_id, exercise, set_number) ==
    LET Match(r) == /\ r.user_id = user_id
                    /\ r.exercise = exercise
                    /\ r.set_number = set_number
        rows == SelectSeq(res, Match)
        latest == {i \in 1..Len(rows) : \A j \in 1..Len(rows) : rows[j].date <= rows[i].date}
    IN  IF Len(rows) = 0 THEN {NULL} ELSE {rows[i].weight : i \in latest}

\* the largest of the weights that are not NULL; NULL when there is none
\* (MAX of SQL passes over NULL)
MaxWeight(ws) ==
    IF ws \ {NULL} = {} THEN NULL
    ELSE CHOOSE w \in ws \ {NULL} : \A v \in ws \ {NULL} : v <= w

\* database.get_stats: SELECT exercise, MAX(weight) FROM results
\* WHERE user_id = ? GROUP BY exercise, as a dictionary
get_stats(res, user_id) ==
    LET mine == {i \in 1..Len(res) : res[i].user_id = user_id}
    IN  [e \in {res[i].exercise : i \in mine} |->
            MaxWeight({res[i].weight : i \in {j \in mine : res[j].exercise = e}})]

\* ------------------------------------------------- handlers/training.py
\* training.ask_for_weight: the possible prompts for the user's current set
ask_for_weight(ts, res, user_id) ==
    IF user_id \notin DOMAIN ts THEN {<<Msg("session_not_found")>>}
    ELSE LET session  == ts[user_id]
             exercise == session.exercises[session.current_ex + 1]
         IN  { <<Prompt(exercise.exercise, session.current_set,
                        IF Truthy(lw) THEN lw ELSE NULL)>> :
               lw \in get_last_weight(res, user_id, exercise.exercise,
                                      session.current_set) }

\* move_to_next_set on a session that reads its exercises from table programs
\* again at every step
move_to_next_set_reloading(ts, user_id) ==
    IF user_id \notin DOMAIN ts THEN [sessions |-> ts, out |-> <<>>, ask |-> FALSE]
    ELSE LET old      == ts[user_id]
             program  == get_program_by_id(programs, user_id, old.program_id, old.day)
             session  == IF old.day \in DOMAIN program
                            /\ old.current_ex < Len(program[old.day])
                         THEN [old EXCEPT !.exercises = program[old.day]]
                         ELSE old
             exercise == session.exercises[session.current_ex + 1]
         IN  IF session.current_set < exercise.sets
             THEN [sessions |-> [ts EXCEPT ![user_id] =
                                    [session EXCEPT !.current_set = @ + 1]],
                   out |-> <<>>, ask |-> TRUE]
             ELSE IF session.current_ex + 1 < Len(session.exercises)
             THEN [sessions |-> [ts EXCEPT ![user_id] =
                                    [session EXCEPT !.current_ex = @ + 1,
                                                    !.current_set = 1]],
                   out |-> <<Msg("exercise_done")>>, ask |-> TRUE]
             ELSE [sessions |-> DictDel(ts, user_id),
                   out |-> <<Msg("complete")>>, ask |-> FALSE]

\* move_to_next_set passing over one set
move_to_next_set_skipping(ts, user_id) ==
    IF user_id \notin DOMAIN ts THEN [sessions |-> ts, out |-> <<>>, ask |-> FALSE]
    ELSE [sessions |-> [ts EXCEPT ![user_id].current_set = @ + 2],
          out |-> <<>>, ask |-> TRUE]

\* training.move_to_next_set: the sessions afterwards, the messages sent
\* before the next prompt, and whether a prompt follows
move_to_next_set(ts, user_id) ==
    IF user_id \notin DOMAIN ts THEN [sessions |-> ts, out |-> <<>>, ask |-> FALSE]
    ELSE LET session  == ts[user_id]
             exercise == session.exercises[session.current_ex + 1]
         IN  IF session.current_set < exercise.sets
             THEN [sessions |-> [ts EXCEPT ![user_id].current_set = @ + 1],
                   out |-> <<>>, ask |-> TRUE]
             ELSE IF session.current_ex + 1 < Len(session.exercises)
             THEN [sessions |-> [ts EXCEPT ![user_id].current_ex = @ + 1,
                                           ![user_id].current_set = 1],
                   out |-> <<Msg("exercise_done")>>, ask |-> TRUE]
             ELSE [sessions |-> DictDel(ts, user_id),
                   out |-> <<Msg("complete")>>, ask |-> FALSE]

\* the messages of move_to_next_set followed by those of the ask_for_weight
\* it calls
NextSetReplies(mv, res, user_id) ==
    IF mv.ask THEN {mv.out \o p : p \in ask_for_weight(mv.sessions, res, user_id)}
    ELSE {mv.out}

\* the part shared by process_weight_input, process_weight_direct and
\* confirm_weight_callback: save the weight, acknowledge, move on
SaveAndAdvance(user_id, weight, ack, clear) ==
    LET session  == training_sessions[user_id]
        exercise == session.exercises[session.current_ex + 1]
        mv       == move_to_next_set(training_sessions, user_id)
    IN  /\ training_sessions' = mv.sessions
        /\ \E date \in Now :
              LET newres == save_result(results, user_id, exercise.exercise_id,
                                        session.day, exercise.exercise,
                                        session.current_set, weight, date)
              IN  /\ results' = newres
                  /\ \E r \in NextSetReplies(mv, newres, user_id) :
                        reply' = Sent(user_id, <<ack>> \o r)
        /\ fsm' = IF clear THEN [fsm EXCEPT ![user_id] = Cleared] ELSE fsm
        /\ UNCHANGED <<workout_creation_sessions, temp_programs, button_training_sessions, button_workout_results>>

\* a handler that returns without touching anything but the chat
Answer(user_id, msgs) ==
    /\ reply' = Sent(user_id, msgs)
    /\ UNCHANGED <<workout_creation_sessions, fsm, temp_programs, training_sessions, button_training_sessions, results,
                   button_workout_results>>

\* process_weight_input without a look at training_sessions: it saves the
\* weight under the first set of the first exercise whatever the user is doing
process_weight_input_unchecked(user_id, text) ==
    LET f == ParseFloat(text)
    IN  IF f.err \/ NonPositive(f) THEN Answer(user_id, <<Msg("invalid_format")>>)
        ELSE /\ \E date \in Now :
                   results' = save_result(results, user_id, 1, today,
                                          ExerciseNames[1], 1, StoredWeight(f), date)
             /\ reply' = Sent(user_id, <<Saved(StoredWeight(f))>>)
             /\ fsm' = [fsm EXCEPT ![user_id] = Cleared]
             /\ UNCHANGED <<workout_creation_sessions, temp_programs, training_sessions,
                            button_training_sessions, button_workout_results>>

\* training.process_weight_input, the handler of state waiting_for_weight
process_weight_input(user_id, text) ==
    IF user_id \notin DOMAIN training_sessions
    THEN /\ reply' = Sent(user_id, <<Msg("session_not_found")>>)
         /\ fsm' = [fsm EXCEPT ![user_id] = Cleared]
         /\ UNCHANGED <<workout_creation_sessions, temp_programs, training_sessions, button_training_sessions, results,
                        button_workout_results>>
    ELSE LET f        == ParseFloat(text)
             session  == training_sessions[user_id]
             exercise == session.exercises[session.current_ex + 1]
         IN  IF f.err \/ NonPositive(f) THEN Answer(user_id, <<Msg("invalid_format")>>)
             ELSE IF ~Truthy(exercise.exercise_id)
             THEN Answer(user_id, <<Msg("no_exercise_id")>>)
             ELSE SaveAndAdvance(user_id, StoredWeight(f), Saved(StoredWeight(f)), TRUE)

\* training.process_weight_direct, the handler of numeric texts
process_weight_direct(user_id, text) ==
    IF user_id \in DOMAIN button_training_sessions THEN Answer(user_id, <<>>)
    ELSE IF user_id \notin DOMAIN training_sessions THEN Answer(user_id, <<>>)
    ELSE IF fsm[user_id].state = "waiting_for_weight" THEN Answer(user_id, <<>>)
    ELSE LET f        == ParseFloat(text)
             session  == training_sessions[user_id]
             exercise == session.exercises[session.current_ex + 1]
         IN  IF f.err \/ NonPositive(f) THEN Answer(user_id, <<>>)
             ELSE IF ~Truthy(exercise.exercise_id)
             THEN Answer(user_id, <<Msg("no_exercise_id")>>)
             ELSE SaveAndAdvance(user_id, StoredWeight(f), Saved(StoredWeight(f)), FALSE)

\* training.confirm_weight_callback, a handler of the confirm_weight button
confirm_weight_callback(user_id) ==
    IF user_id \in DOMAIN button_training_sessions THEN Answer(user_id, <<>>)
    ELSE IF user_id \notin DOMAIN training_sessions
    THEN Answer(user_id, <<Msg("session_not_found")>>)
    ELSE LET session  == training_sessions[user_id]
             exercise == session.exercises[session.current_ex + 1]
         IN  IF ~Truthy(exercise.exercise_id)
             THEN Answer(user_id, <<Msg("no_exercise_id")>>)
             ELSE \E lw \in get_last_weight(results, user_id, exercise.exercise,
                                            session.current_set) :
                     IF ~Truthy(lw) THEN Answer(user_id, <<Msg("no_previous_weight")>>)
                     ELSE SaveAndAdvance(user_id, lw, SavedAlert(lw), FALSE)

\* training.end_training_callback, a handler of the end_training button
end_training_callback(user_id) ==
    IF user_id \in DOMAIN button_training_sessions THEN Answer(user_id, <<>>)
    ELSE /\ training_sessions' = DictDel(training_sessions, user_id)
         /\ reply' = Sent(user_id, <<Msg("training_ended"), Msg("training_ended")>>)
         /\ UNCHANGED <<workout_creation_sessions, fsm, temp_programs, button_training_sessions, results,
                        button_workout_results>>

\* training.change_weight_callback, the handler of the change_weight button
change_weight_callback(user_id) ==
    /\ fsm' = [fsm EXCEPT ![user_id].state = "waiting_for_weight"]
    /\ reply' = Sent(user_id, <<Msg("enter_new_weight")>>)
    /\ UNCHANGED <<workout_creation_sessions, temp_programs, training_sessions, button_training_sessions, results,
                   button_workout_results>>

\* training.start_training_session_with_program
start_training_session_with_program(user_id, program_id) ==
    LET day     == today
        program == get_program_by_id(programs, user_id, program_id, day)
    IN  IF DOMAIN program = {}
        THEN IF DOMAIN get_program_by_id(programs, user_id, program_id, "") = {}
             THEN Answer(user_id, <<Msg("program_not_found")>>)
             ELSE Answer(user_id, <<Msg("no_program_for_day")>>)
        ELSE LET exercises == program[day]
                 ts == DictSet(training_sessions, user_id,
                               [day |-> day, exercises |-> exercises,
                                current_ex |-> 0, current_set |-> 1,
                                program_id |-> program_id])
             IN  /\ training_sessions' = ts
                 /\ \E p \in ask_for_weight(ts, results, user_id) :
                       reply' = Sent(user_id, <<Msg("training_started")>> \o p)
                 /\ UNCHANGED <<workout_creation_sessions, fsm, temp_programs, button_training_sessions, results,
                                button_workout_results>>

\* --------------------------------------------- handlers/button_workouts.py
\* rows sorted by (exercise_name, set_number), equal rows in table order
RECURSIVE OrderByNameAndSet(_)
OrderByNameAndSet(rows) ==
    IF Len(rows) = 0 THEN <<>>
    ELSE LET rest == OrderByNameAndSet(SubSeq(rows, 1, Len(rows) - 1))
             r    == rows[Len(rows)]
             NotAfter(x) ==
                 \/ NameRank(x.exercise_name) < NameRank(r.exercise_name)
                 \/ /\ x.exercise_name = r.exercise_name
                    /\ x.set_number <= r.set_number
             k    == Cardinality({i \in 1..Len(rest) : NotAfter(rest[i])})
         IN  SubSeq(rest, 1, k) \o <<r>> \o SubSeq(rest, k + 1, Len(rest))

\* the distinct exercise names of rows, in the order of their first row
RECURSIVE NamesInOrder(_)
NamesInOrder(rows) ==
    IF Len(rows) = 0 THEN <<>>
    ELSE LET rest == NamesInOrder(SubSeq(rows, 1, Len(rows) - 1))
             n    == rows[Len(rows)].exercise_name
         IN  IF \E i \in 1..Len(rest) : rest[i] = n THEN rest ELSE Append(rest, n)

\* database.get_button_workout_exercises
get_button_workout_exercises(bwe, user_id, workout_number) ==
    LET Match(r) == r.user_id = user_id /\ r.workout_number = workout_number
        rows  == OrderByNameAndSet(SelectSeq(bwe, Match))
        names == NamesInOrder(rows)
    IN  [i \in 1..Len(names) |->
            LET OfName(r) == r.exercise_name = names[i]
                mine == SelectSeq(rows, OfName)
            IN  [exercise |-> names[i],
                 sets |-> [j \in 1..Len(mine) |->
                              [set_number |-> mine[j].set_number,
                               reps |-> mine[j].reps]]]]

\* database.get_button_workouts
get_button_workouts(bws, user_id) ==
    LET Mine(r) == r.user_id = user_id
    IN  SelectSeq(bws, Mine)

\* database.save_button_workout_result: INSERT INTO button_workout_results
save_button_workout_result(res, user_id, workout_number, exercise_name, set_number, weight, date) ==
    Append(res, [user_id |-> user_id, workout_number |-> workout_number,
                 exercise_name |-> exercise_name, set_number |-> set_number,
                 weight |-> weight, date |-> date])

\* get_last_button_workout_weight without "workout_number = ?" in its WHERE
\* clause
get_last_button_workout_weight_of_any_workout(res, user_id, workout_number, exercise_name, set_number) ==
    LET Match(r) == /\ r.user_id = user_id
                    /\ r.exercise_name = exercise_name
                    /\ r.set_number = set_number
        rows == SelectSeq(res, Match)
        latest == {i \in 1..Len(rows) : \A j \in 1..Len(rows) : rows[j].date <= rows[i].date}
    IN  IF Len(rows) = 0 THEN {NULL} ELSE {rows[i].weight : i \in latest}

\* database.get_last_button_workout_weight, the counterpart of get_last_weight
get_last_button_workout_weight(res, user_id, workout_number, exercise_name, set_number) ==
    LET Match(r) == /\ r.user_id = user_id
                    /\ r.workout_number = workout_number
                    /\ r.exercise_name = exercise_name
                    /\ r.set_number = set_number
        rows == SelectSeq(res, Match)
        latest == {i \in 1..Len(rows) : \A j \in 1..Len(rows) : rows[j].date <= rows[i].date}
    IN  IF Len(rows) = 0 THEN {NULL} ELSE {rows[i].weight : i \in latest}

\* button_workouts.ask_for_button_workout_weight: steps over the end of an
\* exercise, ends the session after the last one, and prompts otherwise; the
\* possible outcomes, each the sessions afterwards and the messages sent
ask_for_button_workout_weight(bs, res, user_id) ==
    IF user_id \notin DOMAIN bs
    THEN {[sessions |-> bs, out |-> <<Msg("session_not_found")>>]}
    ELSE LET session == bs[user_id]
             over    == session.current_set >=
                           Len(session.exercises[session.current_ex + 1].sets)
             moved   == IF over
                        THEN [session EXCEPT !.current_ex = @ + 1, !.current_set = 0]
                        ELSE session
         IN  IF over /\ moved.current_ex >= Len(moved.exercises)
             THEN {[sessions |-> DictDel(bs, user_id), out |-> <<Msg("complete")>>]}
             ELSE LET exercise == moved.exercises[moved.current_ex + 1]
                      current_set_data == exercise.sets[moved.current_set + 1]
                  IN  { [sessions |-> [bs EXCEPT ![user_id] = moved],
                         out |-> <<Prompt(exercise.exercise,
                                          current_set_data.set_number,
                                          IF Truthy(lw) THEN lw ELSE NULL)>>] :
                        lw \in get_last_button_workout_weight(
                                   res, user_id, moved.workout_number,
                                   exercise.exercise, current_set_data.set_number) }

\* ButtonSaveAndAdvance without "current_set += 1": the weight is saved and
\* the same set is asked for again
ButtonSaveAndStay(user_id, weight, ack) ==
    LET session  == button_training_sessions[user_id]
        exercise == session.exercises[session.current_ex + 1]
        set_number == exercise.sets[session.current_set + 1].set_number
    IN  /\ \E date \in Now :
              LET newres == save_button_workout_result(
                                button_workout_results, user_id,
                                session.workout_number, exercise.exercise,
                                set_number, weight, date)
              IN  /\ button_workout_results' = newres
                  /\ \E a \in ask_for_button_workout_weight(
                                   button_training_sessions, newres, user_id) :
                        /\ button_training_sessions' = a.sessions
                        /\ reply' = Sent(user_id, <<ack>> \o a.out)
        /\ UNCHANGED <<workout_creation_sessions, fsm, temp_programs, training_sessions, results>>

\* the part shared by process_button_workout_weight and
\* confirm_button_workout_weight: save the weight, acknowledge, move on
ButtonSaveAndAdvance(user_id, weight, ack) ==
    LET session  == button_training_sessions[user_id]
        exercise == session.exercises[session.current_ex + 1]
        set_number == exercise.sets[session.current_set + 1].set_number
        stepped  == [button_training_sessions EXCEPT ![user_id].current_set = @ + 1]
    IN  /\ \E date \in Now :
              LET newres == save_button_workout_result(
                                button_workout_results, user_id,
                                session.workout_number, exercise.exercise,
                                set_number, weight, date)
              IN  /\ button_workout_results' = newres
                  /\ \E a \in ask_for_button_workout_weight(stepped, newres,
                                                             user_id) :
                        /\ button_training_sessions' = a.sessions
                        /\ reply' = Sent(user_id, <<ack>> \o a.out)
        /\ UNCHANGED <<workout_creation_sessions, fsm, temp_programs, training_sessions, results>>

\* button_workouts.process_button_workout_weight, a handler of numeric texts
process_button_workout_weight(user_id, text) ==
    IF user_id \notin DOMAIN button_training_sessions THEN Answer(user_id, <<>>)
    ELSE LET f == ParseFloat(text)
         IN  IF f.err \/ NonPositive(f) THEN Answer(user_id, <<>>)
             ELSE ButtonSaveAndAdvance(user_id, StoredWeight(f), Saved(StoredWeight(f)))

\* button_workouts.confirm_button_workout_weight, a handler of confirm_weight
confirm_button_workout_weight(user_id) ==
    IF user_id \notin DOMAIN button_training_sessions THEN Answer(user_id, <<>>)
    ELSE LET session  == button_training_sessions[user_id]
             exercise == session.exercises[session.current_ex + 1]
             set_number == exercise.sets[session.current_set + 1].set_number
         IN  \E lw \in get_last_button_workout_weight(
                           button_workout_results, user_id, session.workout_number,
                           exercise.exercise, set_number) :
                 IF ~Truthy(lw) THEN Answer(user_id, <<Msg("no_previous_weight")>>)
                 ELSE ButtonSaveAndAdvance(user_id, lw, SavedAlert(lw))

\* button_workouts.end_button_workout_callback, a handler of end_training
end_button_workout_callback(user_id) ==
    IF user_id \in DOMAIN button_training_sessions
    THEN /\ button_training_sessions' = DictDel(button_training_sessions, user_id)
         /\ reply' = Sent(user_id, <<Msg("training_ended"), Msg("training_ended")>>)
         /\ UNCHANGED <<workout_creation_sessions, fsm, temp_programs, training_sessions, results, button_workout_results>>
    ELSE Answer(user_id, <<>>)

\* button_workouts.select_workout, the handler of the select_workout_N buttons
select_workout(user_id, workout_number) ==
    LET exercises == get_button_workout_exercises(button_workout_exercises,
                                                  user_id, workout_number)
        workouts  == get_button_workouts(button_workouts, user_id)
        named     == {i \in 1..Len(workouts) :
                         workouts[i].workout_number = workout_number}
        workout_name == IF named = {} THEN "Workout"
                        ELSE workouts[CHOOSE i \in named : \A j \in named : i <= j]
                                 .workout_name
    IN  IF Len(exercises) = 0 THEN Answer(user_id, <<Msg("workout_not_found")>>)
        ELSE LET bs == DictSet(button_training_sessions, user_id,
                               [workout_number |-> workout_number,
                                workout_name |-> workout_name,
                                exercises |-> exercises,
                                current_ex |-> 0, current_set |-> 0])
             IN  \E a \in ask_for_button_workout_weight(bs, button_workout_results,
                                                        user_id) :
                    /\ button_training_sessions' = a.sessions
                    /\ reply' = Sent(user_id, <<Msg("training_started")>> \o a.out)
                    /\ UNCHANGED <<workout_creation_sessions, fsm, temp_programs, training_sessions, results,
                                   button_workout_results>>

\* start.select_program, the handler of the select_program_N buttons
select_program(user_id, program_id) ==
    LET program  == get_program_by_id(programs, user_id, program_id, "")
        mine     == get_user_programs(workout_programs, user_id)
        infos    == {i \in 1..Len(mine) : mine[i].id = program_id}
    IN  IF DOMAIN program = {} THEN Answer(user_id, <<Msg("program_not_found")>>)
        ELSE IF infos = {} THEN Answer(user_id, <<Msg("program_not_found")>>)
        ELSE start_training_session_with_program(user_id, program_id)

\* ---------------------------------------------------------------- parser.py
\* A text is a tuple of characters.  Characters outside ASCII are written by
\* name: "P", "N", "V", "T" are the Cyrillic capitals of ПН, ВТ and ПТ; "pe"
\* and "en" are the small letters п and н, "zh" is ж and "kh" the Cyrillic х;
\* "me", "ah", "ka", "es" are the letters of макс and "ME", "AH", "KA", "ES"
\* those of МАКС; "EM" and "EN" are the dashes — and –, "BUL" is the bullet 🔹
\* and "LF" the line feed.  Latin letters and all other characters stand for
\* themselves.
CyrillicLetters ==
    {"P", "N", "V", "T", "pe", "en", "zh", "kh",
     "me", "ah", "ka", "es", "ME", "AH", "KA", "ES"}

\* the class [А-ЯЁ] under re.IGNORECASE
IsCyrillic(c) == c \in CyrillicLetters

\* str.upper() of one character
Upper(c) ==
    CASE c = "pe" -> "P"
      [] c = "en" -> "N"
      [] c = "zh" -> "ZH"
      [] c = "kh" -> "KH"
      [] c = "me" -> "ME"
      [] c = "ah" -> "AH"
      [] c = "ka" -> "KA"
      [] c = "es" -> "ES"
      [] c = "x"  -> "X"
      [] OTHER    -> c

\* the class \s, and the characters str.strip() removes
IsSpace(c) == c \in {" ", "LF"}

\* the class [🔹🔸▪️▫️•]
Bullets == {"BUL"}

\* the separators of a name and its description, in the order tried
Separators == <<"EM", "EN", "-">>

\* DAY_MAPPING, for the keys the characters above can spell
DAY_MAPPING ==
    [k \in {<<"P", "N">>, <<"V", "T">>, <<"P", "T">>, <<"V", "ES">>} |->
        CASE k = <<"P", "N">> -> "Monday"
          [] k = <<"V", "T">> -> "Tuesday"
          [] k = <<"P", "T">> -> "Friday"
          [] k = <<"V", "ES">> -> "Sunday"]

\* None, where a day label is expected
NoDay == ""

\* the least element of a non-empty set of numbers
Least(S) == CHOOSE i \in S : \A j \in S : i <= j

RECURSIVE LStrip(_)
LStrip(s) == IF Len(s) > 0 /\ IsSpace(Head(s)) THEN LStrip(Tail(s)) ELSE s

RECURSIVE RStrip(_)
RStrip(s) ==
    IF Len(s) > 0 /\ IsSpace(s[Len(s)]) THEN RStrip(SubSeq(s, 1, Len(s) - 1)) ELSE s

\* str.strip()
Strip(s) == RStrip(LStrip(s))

\* s[i:], counted from 1
From(s, i) == SubSeq(s, i, Len(s))

\* str.split(c)
RECURSIVE Split(_, _)
Split(s, c) ==
    LET at == {i \in 1..Len(s) : s[i] = c}
    IN  IF at = {} THEN <<s>>
        ELSE <<SubSeq(s, 1, Least(at) - 1)>> \o Split(From(s, Least(at) + 1), c)

\* the length of the longest prefix of s made of Cyrillic letters
RECURSIVE LettersAtStart(_)
LettersAtStart(s) ==
    IF Len(s) > 0 /\ IsCyrillic(Head(s)) THEN 1 + LettersAtStart(Tail(s)) ELSE 0

\* the end of the run of digits that starts at s[i]
RECURSIVE DigitsEnd(_, _)
DigitsEnd(s, i) ==
    IF i < Len(s) /\ IsDigit(s[i + 1]) THEN DigitsEnd(s, i + 1) ELSE i

\* parser.extract_day_from_text: the three patterns capture the same run of
\* letters, which must be followed by a separator (after any spaces), by a
\* space, or by nothing
extract_day_from_text(text) ==
    LET NoBullet(c) == c \notin Bullets
        text_clean == Strip(SelectSeq(text, NoBullet))
        n    == LettersAtStart(text_clean)
        rest == From(text_clean, n + 1)
        next == LStrip(rest)
        day_short == [i \in 1..n |-> Upper(text_clean[i])]
    IN  IF /\ n >= 2
           /\ \/ Len(next) > 0 /\ next[1] \in {":", "EM", "-"}
              \/ Len(rest) > 0 /\ IsSpace(rest[1])
              \/ Len(rest) = 0
           /\ day_short \in DOMAIN DAY_MAPPING
        THEN DAY_MAPPING[day_short]
        ELSE NoDay

\* re.sub(r'\([^)]*\)', '', s): every "(" with a ")" after it is removed
\* together with what lies between
RECURSIVE RemoveComments(_)
RemoveComments(s) ==
    LET opens == {i \in 1..Len(s) : s[i] = "("}
    IN  IF opens = {} THEN s
        ELSE LET i == Least(opens)
                 closes == {j \in (i + 1)..Len(s) : s[j] = ")"}
             IN  IF closes = {} THEN s
                 ELSE SubSeq(s, 1, i - 1) \o RemoveComments(From(s, Least(closes) + 1))

\* (\d+)\s*[хx]\s*\d+ under re.IGNORECASE, matched at position i of t
Times(t, i) ==
    /\ IsDigit(t[i])
    /\ LET glyph == LStrip(From(t, DigitsEnd(t, i) + 1))
       IN  /\ Len(glyph) > 0
           /\ glyph[1] \in {"x", "kh", "X", "KH"}
           /\ LET reps == LStrip(Tail(glyph))
              IN  Len(reps) > 0 /\ IsDigit(reps[1])

\* the number that starts at position i of t
NumberAt(t, i) == DecVal(SubSeq(t, i, DigitsEnd(t, i)))

\* re.findall(r'\d+', t): one item per run of digits
Ranges(t) == {i \in 1..Len(t) : IsDigit(t[i]) /\ (i = 1 \/ ~IsDigit(t[i - 1]))}

\* re.findall(r'\d+-\d+', t) finds something
DashSeparated(t) ==
    \E i \in 1..(Len(t) - 2) : IsDigit(t[i]) /\ t[i + 1] = "-" /\ IsDigit(t[i + 2])

\* the rules of parse_sets_from_exercise on the text without comments, given
\* the positions that match "NxM" and the count of the numbers
SetsByRules(t, matches, numbers) ==
    IF matches # {} THEN NumberAt(t, Least(matches))
    ELSE IF numbers >= 2 /\ DashSeparated(t) THEN numbers
    ELSE 1

\* the rules without the count of the numbers of a run
SetsWithoutRuns(t, matches) ==
    IF matches # {} THEN NumberAt(t, Least(matches)) ELSE 1

SetsOfClean(t) ==
    SetsByRules(t, {i \in 1..Len(t) : Times(t, i)}, Cardinality(Ranges(t)))

SetsOfCleanWithoutRuns(t) ==
    SetsWithoutRuns(t, {i \in 1..Len(t) : Times(t, i)})

\* parse_sets_from_exercise without the count of the numbers of a run
parse_sets_without_runs(exercise_text) ==
    SetsOfCleanWithoutRuns(Strip(RemoveComments(exercise_text)))

\* parser.parse_sets_from_exercise
parse_sets_from_exercise(exercise_text) ==
    SetsOfClean(Strip(RemoveComments(exercise_text)))

\* the alternation (\d+[хx]\d+|\d+-\d+.*|\d+) matched at the digit s[i]: the
\* index of the last character matched ("." matches no line feed)
NumericTokenEnd(s, i) ==
    LET a == DigitsEnd(s, i)
    IN  IF a + 2 <= Len(s) /\ s[a + 1] \in {"x", "kh"} /\ IsDigit(s[a + 2])
        THEN DigitsEnd(s, a + 2)
        ELSE IF a + 2 <= Len(s) /\ s[a + 1] = "-" /\ IsDigit(s[a + 2])
        THEN LET feeds == {j \in (a + 3)..Len(s) : s[j] = "LF"}
             IN  IF feeds = {} THEN Len(s) ELSE Least(feeds) - 1
        ELSE a

\* re.match(r'^(.+?)\s+(\d+[хx]\d+|\d+-\d+.*|\d+)', s): the shortest name
\* that is followed by spaces and a digit
NameThenNumber(s) ==
    LET Fits(p) ==
            /\ \A i \in 1..p : s[i] # "LF"
            /\ IsSpace(s[p + 1])
            /\ LET r == LStrip(From(s, p + 1)) IN Len(r) > 0 /\ IsDigit(r[1])
        names == {p \in 1..(Len(s) - 2) : Fits(p)}
    IN  IF names = {} THEN [found |-> FALSE, name |-> <<>>, description |-> <<>>]
        ELSE LET p == Least(names)
                 d == Len(s) - Len(LStrip(From(s, p + 1))) + 1
             IN  [found |-> TRUE, name |-> SubSeq(s, 1, p),
                  description |-> SubSeq(s, d, NumericTokenEnd(s, d))]

\* re.search(r'(\d+[хx]\d+|\d+-\d+.*|\d+)\s*$', s): the leftmost digit from
\* which one of the three forms reaches the end of s
NumberAtEnd(s) ==
    LET AtEnd(j) == \A k \in (j + 1)..Len(s) : IsSpace(s[k])
        Form(i) ==
            LET a == DigitsEnd(s, i)
            IN  IF /\ a + 2 <= Len(s) /\ s[a + 1] \in {"x", "kh"} /\ IsDigit(s[a + 2])
                   /\ AtEnd(DigitsEnd(s, a + 2))
                THEN DigitsEnd(s, a + 2)
                ELSE IF /\ a + 2 <= Len(s) /\ s[a + 1] = "-" /\ IsDigit(s[a + 2])
                        /\ \A k \in (a + 3)..Len(RStrip(s)) : s[k] # "LF"
                THEN Len(s)
                ELSE IF AtEnd(a) THEN a
                ELSE 0
        starts == {i \in 1..Len(s) : IsDigit(s[i]) /\ Form(i) > 0}
    IN  IF starts = {} THEN [found |-> FALSE, name |-> <<>>, description |-> <<>>]
        ELSE LET i == Least(starts)
             IN  [found |-> TRUE, name |-> SubSeq(s, 1, i - 1),
                  description |-> SubSeq(s, i, Form(i))]

\* re.sub(r'^[🔹🔸▪️▫️•\-\s]+', '', s)
RECURSIVE DropLeadingMarks(_)
DropLeadingMarks(s) ==
    IF Len(s) > 0 /\ (Head(s) \in Bullets \/ Head(s) = "-" \/ IsSpace(Head(s)))
    THEN DropLeadingMarks(Tail(s))
    ELSE s

\* None, where parser.parse_exercise_line returns no exercise
NoExercise == [found |-> FALSE, exercise |-> <<>>, sets |-> 0]

\* the name and the description after the loop over the separators: the line
\* is split at the first occurrence of the first separator it contains
AtSeparator(line, present) ==
    IF present = {} THEN [name |-> line, description |-> <<>>]
    ELSE LET first == Split(line, Separators[Least(present)])[1]
         IN  [name |-> Strip(first),
              description |-> Strip(From(line, Len(first) + 2))]

\* a match replaces the name and the description found so far
WithMatch(nd, m) ==
    IF m.found THEN [name |-> Strip(m.name), description |-> Strip(m.description)]
    ELSE nd

\* without a description, the pattern of a name followed by a number is tried
OrNameThenNumber(line, nd) ==
    IF nd.description = <<>> THEN WithMatch(nd, NameThenNumber(line)) ELSE nd

\* still without a description, a number at the end of the line is searched
OrNumberAtEnd(line, nd) ==
    IF nd.description = <<>> THEN WithMatch(nd, NumberAtEnd(line)) ELSE nd

\* the exercise of a name and a description, None for an empty name
ExerciseOf(line, nd) ==
    IF Len(nd.name) = 0 THEN NoExercise
    ELSE [found |-> TRUE, exercise |-> nd.name,
          sets |-> parse_sets_from_exercise(
                       IF Len(nd.description) > 0 THEN nd.description ELSE line)]

\* parse_exercise_line on the line without its leading marks
ExerciseOfLine(line) ==
    ExerciseOf(line,
        OrNumberAtEnd(line,
            OrNameThenNumber(line,
                AtSeparator(line,
                    {k \in 1..Len(Separators) :
                        \E i \in 1..Len(line) : line[i] = Separators[k]}))))

\* parser.parse_exercise_line
parse_exercise_line(text) ==
    IF Len(Strip(text)) = 0 THEN NoExercise
    ELSE ExerciseOfLine(Strip(DropLeadingMarks(Strip(text))))

\* the entry of the schedule made of a parsed exercise
EntryOf(e) == [exercise |-> e.exercise, sets |-> e.sets]

\* the entry of one part of a comma-separated list, if the part parses
ListEntry(part, e) == IF Len(part) > 0 /\ e.found THEN <<EntryOf(e)>> ELSE <<>>

\* ParseList stopping after the first part of the list
ParseFirstOfList(parts) ==
    IF Len(parts) = 0 THEN <<>>
    ELSE ListEntry(Strip(Head(parts)), parse_exercise_line(Strip(Head(parts))))

\* the exercises of a comma-separated list, those that parse
RECURSIVE ParseList(_)
ParseList(parts) ==
    IF Len(parts) = 0 THEN <<>>
    ELSE ListEntry(Strip(Head(parts)), parse_exercise_line(Strip(Head(parts))))
            \o ParseList(Tail(parts))

\* re.match(r'^([А-ЯЁ]+)\s*[:—\-]', s, re.IGNORECASE) and the look-up of the
\* letters in DAY_MAPPING: the day, and what follows the match
DayMatch(s) ==
    LET n    == LettersAtStart(s)
        next == LStrip(From(s, n + 1))
        day_short == [i \in 1..n |-> Upper(s[i])]
    IN  IF /\ n >= 1
           /\ Len(next) > 0
           /\ next[1] \in {":", "EM", "-"}
           /\ day_short \in DOMAIN DAY_MAPPING
        THEN [found |-> TRUE, day |-> DAY_MAPPING[day_short], rest |-> Tail(next)]
        ELSE [found |-> FALSE, day |-> NoDay, rest |-> <<>>]

\* program[current_day] = current_exercises, if there is a day with exercises
Flush(st) ==
    IF st.current_day # NoDay /\ Len(st.current_exercises) > 0
    THEN DictSet(st.program, st.current_day, st.current_exercises)
    ELSE st.program

\* a day header: the open day is stored and the new day opened
OpenDay(st, day) ==
    [program |-> Flush(st), current_day |-> day, current_exercises |-> <<>>]

\* a line "DAY: list" met while no day is open
OpenInline(st, old) ==
    [st EXCEPT !.current_day = old.day,
               !.current_exercises = @ \o ParseList(Split(Strip(old.rest), ","))]

\* an exercise line: the exercise is appended, under today's day if none is open
AppendExercise(st, e) ==
    IF e.found
    THEN [st EXCEPT !.current_day = IF @ = NoDay THEN today ELSE @,
                    !.current_exercises = Append(@, EntryOf(e))]
    ELSE st

\* one turn of the loop over the lines, given the day extract_day_from_text
\* finds in the line and the match of the legacy form
LineStep(line, st, day, old) ==
    IF Len(line) = 0 THEN st
    ELSE IF day # NoDay THEN OpenDay(st, day)
    ELSE IF st.current_day = NoDay /\ old.found THEN OpenInline(st, old)
    ELSE AppendExercise(st, parse_exercise_line(line))

\* the loop of parse_program over the lines of the text
RECURSIVE LinePass(_, _)
LinePass(lines, st) ==
    IF Len(lines) = 0 THEN st
    ELSE LinePass(Tail(lines),
                  LineStep(Strip(Head(lines)), st,
                           extract_day_from_text(Strip(Head(lines))),
                           DayMatch(Strip(Head(lines)))))

\* one block of the second attempt, given the match of its day
BlockStep(block, program, m) ==
    IF Len(block) = 0 \/ ~m.found THEN program
    ELSE DictSet(program, m.day, ParseList(Split(Strip(m.rest), ",")))

\* the second attempt of parse_program: blocks separated by ";"
RECURSIVE BlockPass(_, _)
BlockPass(blocks, program) ==
    IF Len(blocks) = 0 THEN program
    ELSE BlockPass(Tail(blocks),
                   BlockStep(Strip(Head(blocks)), program,
                             DayMatch(Strip(Head(blocks)))))

\* the second attempt is made when the first has found nothing
OrBlocks(first, text) ==
    IF DOMAIN first = {} THEN BlockPass(Split(text, ";"), <<>>) ELSE first

\* the program is returned unless it is empty, which raises ValueError
ReturnOrRaise(program) == [ok |-> DOMAIN program # {}, program |-> program]

\* parser.parse_program: the schedule {day: [exercises]}, or ValueError
parse_program(text) ==
    ReturnOrRaise(
        OrBlocks(Flush(LinePass(Split(text, "LF"),
                                [program |-> <<>>, current_day |-> NoDay,
                                 current_exercises |-> <<>>])),
                 text))

\* ------------------------------------------------------ workout_bot/parser.py
\* the position of the last white space of s; 0 when there is none
LastSpace(s) ==
    LET at == {i \in 1..Len(s) : IsSpace(s[i])}
    IN  IF at = {} THEN 0 ELSE CHOOSE i \in at : \A j \in at : j <= i

\* the length of the longest prefix of s made of digits
RECURSIVE DigitsAtStart(_)
DigitsAtStart(s) ==
    IF Len(s) > 0 /\ IsDigit(Head(s)) THEN 1 + DigitsAtStart(Tail(s)) ELSE 0

\* the alternatives макс|МАКС|max|MAX
LegacyMaxWords ==
    { <<"me", "ah", "ka", "es">>, <<"ME", "AH", "KA", "ES">>,
      <<"m", "a", "x">>, <<"M", "A", "X">> }

\* token is (\d+)x(\d+|макс|МАКС|max|MAX) with n digits before the x
LegacyIsTimes(token, n) ==
    /\ n >= 1
    /\ Len(token) > n
    /\ token[n + 1] = "x"
    /\ (AllDigits(From(token, n + 2)) \/ From(token, n + 2) \in LegacyMaxWords)

\* the two patterns of the legacy parser on "name token": `name NxR` first,
\* then `name N`; ValueError when neither matches
LegacyEntry(name, token, n) ==
    IF LegacyIsTimes(token, n)
    THEN [ok |-> TRUE, entry |-> [exercise |-> name, sets |-> DecVal(SubSeq(token, 1, n))]]
    ELSE IF AllDigits(token)
    THEN [ok |-> TRUE, entry |-> [exercise |-> name, sets |-> DecVal(token)]]
    ELSE [ok |-> FALSE, entry |-> <<>>]

\* one exercise of a block, whose last white space is at j
LegacyExercise(exercise_text, j) ==
    IF j = 0 THEN [ok |-> FALSE, entry |-> <<>>]
    ELSE LegacyEntry(RStrip(SubSeq(exercise_text, 1, j - 1)), From(exercise_text, j + 1),
                     DigitsAtStart(From(exercise_text, j + 1)))

\* the entry e put before the entries of the rest of the list
LegacyCons(e, rest) ==
    [ok |-> e.ok /\ rest.ok,
     entries |-> IF e.ok THEN <<e.entry>> \o rest.entries ELSE rest.entries]

\* the exercises of the parts of a block that are not empty
RECURSIVE LegacyList(_)
LegacyList(parts) ==
    IF Len(parts) = 0 THEN [ok |-> TRUE, entries |-> <<>>]
    ELSE IF Len(Strip(Head(parts))) = 0 THEN LegacyList(Tail(parts))
    ELSE LegacyCons(LegacyExercise(Strip(Head(parts)), LastSpace(Strip(Head(parts)))),
                    LegacyList(Tail(parts)))

\* program[day_full] = the exercises of the block, given the list parsed
LegacyStore(st, day, list) ==
    [ok |-> st.ok /\ list.ok, program |-> DictSet(st.program, day, list.entries)]

\* one block: re.match(r'^([А-ЯЁ]+):', block, re.IGNORECASE) with n letters
\* at the start, the look-up in DAY_MAPPING, the exercises after the colon
LegacyBlock(block, n, st) ==
    IF Len(block) = 0 THEN st
    ELSE IF ~(n >= 1 /\ Len(block) > n /\ block[n + 1] = ":")
    THEN [st EXCEPT !.ok = FALSE]
    ELSE IF [i \in 1..n |-> Upper(block[i])] \notin DOMAIN DAY_MAPPING
    THEN [st EXCEPT !.ok = FALSE]
    ELSE LegacyStore(st, DAY_MAPPING[[i \in 1..n |-> Upper(block[i])]],
                     LegacyList(Split(Strip(From(block, n + 2)), ",")))

RECURSIVE LegacyBlocks(_, _)
LegacyBlocks(blocks, st) ==
    IF Len(blocks) = 0 THEN st
    ELSE LegacyBlocks(Tail(blocks),
                      LegacyBlock(Strip(Head(blocks)),
                                  LettersAtStart(Strip(Head(blocks))), st))

\* re.split(r'[;\n]', text): the line feeds split as the semicolons do
SemicolonForLineFeed(text) == [i \in 1..Len(text) |-> IF text[i] = "LF" THEN ";" ELSE text[i]]

\* the program is returned unless an exercise or a day raised ValueError or
\* the program is empty
LegacyReturnOrRaise(st) ==
    IF st.ok /\ DOMAIN st.program # {} THEN [ok |-> TRUE, program |-> st.program]
    ELSE [ok |-> FALSE, program |-> <<>>]

\* workout_bot/parser.parse_program: the schedule {day: [exercises]}, or
\* ValueError
legacy_parse_program(text) ==
    LegacyReturnOrRaise(LegacyBlocks(Split(SemicolonForLineFeed(text), ";"),
                                     [ok |-> TRUE, program |-> <<>>]))

\* start.handle_upload_program_mode, the handler of the mode_upload_program
\* button
handle_upload_program_mode(user_id) ==
    /\ fsm' = [fsm EXCEPT ![user_id].state = "waiting_for_program_name_upload"]
    /\ reply' = Sent(user_id, <<Msg("enter_program_name")>>)
    /\ UNCHANGED <<workout_creation_sessions, temp_programs, training_sessions, button_training_sessions,
                   results, button_workout_results>>

\* start.process_program_name_upload, the handler of state
\* waiting_for_program_name_upload
process_program_name_upload(user_id, text) ==
    IF Len(text) = 0 THEN Answer(user_id, <<Msg("empty_program_name")>>)
    ELSE /\ fsm' = [fsm EXCEPT ![user_id] =
                        [state |-> "waiting_for_program_text",
                         program_name |-> text]]
         /\ reply' = Sent(user_id, <<Msg("program_name_saved")>>)
         /\ UNCHANGED <<workout_creation_sessions, temp_programs, training_sessions,
                        button_training_sessions, results,
                        button_workout_results>>

\* start.handle_program_text, the handler of state waiting_for_program_text
handle_program_text(user_id, text) ==
    \E parsed \in {parse_program(text)} :
        IF ~parsed.ok THEN Answer(user_id, <<Msg("parse_error")>>)
        ELSE /\ temp_programs' =
                    DictSet(temp_programs, user_id,
                            [program |-> parsed.program,
                             program_name |-> fsm[user_id].program_name,
                             program_type |-> "uploaded"])
             /\ reply' = Sent(user_id, <<Msg("program_recognized")>>)
             /\ UNCHANGED <<workout_creation_sessions, fsm, training_sessions, button_training_sessions,
                            results, button_workout_results>>

\* training.save_program_callback, the first handler of the save_program
\* button.  With a pending program it hands the whole temp_programs entry to
\* database.save_program, which fails with TypeError on the first exercise
\* after its DELETE and before its commit: the handler stops there, the
\* DELETE is rolled back and the entry stays.
save_program_callback(user_id) ==
    IF user_id \notin DOMAIN temp_programs
    THEN Answer(user_id, <<Msg("pending_program_not_found")>>)
    ELSE Answer(user_id, <<>>)

\* one line of the statistics message
StatsLine(exercise, max_weight) ==
    [tag |-> "stats", exercise |-> exercise, set_number |-> 0, weight |-> max_weight]

\* stats.cmd_stats, the handler of the command /stats: the lines of
\* sorted(stats.items())
cmd_stats(user_id) ==
    LET stats == get_stats(results, user_id)
        InStats(i) == ExerciseNames[i] \in DOMAIN stats
        lines == [i \in 1..Len(ExerciseNames) |->
                     IF InStats(i) THEN <<StatsLine(ExerciseNames[i], stats[ExerciseNames[i]])>>
                     ELSE <<>>]
    IN  IF DOMAIN stats = {} THEN Answer(user_id, <<Msg("no_results")>>)
        ELSE Answer(user_id, lines[1] \o lines[2])

\* restart_bot without the deletion of the entry of training_sessions
restart_bot_keeping_schedule(user_id) ==
    /\ fsm' = [fsm EXCEPT ![user_id] = Cleared]
    /\ workout_creation_sessions' = DictDel(workout_creation_sessions, user_id)
    /\ button_training_sessions' = DictDel(button_training_sessions, user_id)
    /\ temp_programs' = DictDel(temp_programs, user_id)
    /\ reply' = Sent(user_id, <<Msg("restarted")>>)
    /\ UNCHANGED <<training_sessions, results, button_workout_results>>

\* start.restart_bot, the handler of the text of the restart button
restart_bot(user_id) ==
    /\ fsm' = [fsm EXCEPT ![user_id] = Cleared]
    /\ workout_creation_sessions' = DictDel(workout_creation_sessions, user_id)
    /\ button_training_sessions' = DictDel(button_training_sessions, user_id)
    /\ temp_programs' = DictDel(temp_programs, user_id)
    /\ training_sessions' = DictDel(training_sessions, user_id)
    /\ reply' = Sent(user_id, <<Msg("restarted")>>)
    /\ UNCHANGED <<results, button_workout_results>>

\* ------------------------------------------------------------ main.py
\* The routers are included in the order button_workouts, training, stats,
\* start.  An update goes to the first handler, in router order and then in
\* the order of definition, whose filter accepts it; no later handler sees it.
\* (The FSM states of workout and program creation are not part of this
\* model, so the handlers filtered on them never match here.)

\* the handler that receives the text message of a user
MessageHandler(user_id, text) ==
    IF MatchesWeightRegex(text) THEN "process_button_workout_weight"
    ELSE IF fsm[user_id].state = "waiting_for_weight" THEN "process_weight_input"
    ELSE IF MatchesWeightRegex(text) /\ text[1] # "/" THEN "process_weight_direct"
    ELSE IF text = StatsCommand THEN "cmd_stats"
    ELSE IF fsm[user_id].state = "waiting_for_program_name_upload"
         THEN "process_program_name_upload"
    ELSE IF fsm[user_id].state = "waiting_for_program_text" THEN "handle_program_text"
    ELSE IF text = RestartText THEN "restart_bot"
    ELSE "unhandled"

\* the handler that receives the tap of a button with callback data `data`
CallbackHandler(data) ==
    CASE data = "confirm_weight"  -> "confirm_button_workout_weight"
      [] data = "end_training"    -> "end_button_workout_callback"
      [] data = "change_weight"   -> "change_weight_callback"
      [] data = "select_workout"  -> "select_workout"
      [] data = "select_program"  -> "select_program"
      [] data = "mode_upload_program" -> "handle_upload_program_mode"
      [] data = "save_program"    -> "save_program_callback"
      [] OTHER                    -> "unhandled"

\* run the handler named h on the update
RunHandler(h, user_id, text, arg) ==
    CASE h = "process_button_workout_weight" -> process_button_workout_weight(user_id, text)
      [] h = "process_weight_input"          -> process_weight_input(user_id, text)
      [] h = "process_weight_direct"         -> process_weight_direct(user_id, text)
      [] h = "confirm_button_workout_weight" -> confirm_button_workout_weight(user_id)
      [] h = "confirm_weight_callback"       -> confirm_weight_callback(user_id)
      [] h = "end_button_workout_callback"   -> end_button_workout_callback(user_id)
      [] h = "end_training_callback"         -> end_training_callback(user_id)
      [] h = "change_weight_callback"        -> change_weight_callback(user_id)
      [] h = "select_workout"                -> select_workout(user_id, arg)
      [] h = "select_program"                -> select_program(user_id, arg)
      [] h = "restart_bot"                   -> restart_bot(user_id)
      [] h = "cmd_stats"                     -> cmd_stats(user_id)
      [] h = "handle_upload_program_mode"    -> handle_upload_program_mode(user_id)
      [] h = "process_program_name_upload"   -> process_program_name_upload(user_id, text)
      [] h = "handle_program_text"           -> handle_program_text(user_id, text)
      [] h = "save_program_callback"         -> save_program_callback(user_id)
      [] OTHER                               -> Answer(user_id, <<>>)

\* a text message of the user is dispatched
MessageUpdate(user_id, text) ==
    /\ RunHandler(MessageHandler(user_id, text), user_id, text, 0)
    /\ UNCHANGED <<parser_in, parser_out, today, store>>

\* a button tap of the user is dispatched
CallbackUpdate(user_id, data, arg) ==
    /\ RunHandler(CallbackHandler(data), user_id, <<>>, arg)
    /\ UNCHANGED <<parser_in, parser_out, today, store>>

\* no call of the parser has returned
NoCall == [done |-> FALSE, value |-> NULL]

\* the state of the bot when main() has run init_db
Booted ==
    /\ today \in Days
    /\ fsm = [u \in Users |-> Cleared]
    /\ temp_programs = <<>>
    /\ training_sessions = <<>>
    /\ button_training_sessions = <<>>
    /\ workout_creation_sessions = <<>>
    /\ workout_programs = SeedWorkoutPrograms
    /\ programs = SeedPrograms
    /\ button_workouts = SeedButtonWorkouts
    /\ button_workout_exercises = SeedButtonExercises
    /\ sqlite_sequence = [programs |-> Len(SeedPrograms)]
    /\ results = <<>>
    /\ button_workout_results = SeedButtonResults
    /\ reply = Sent(0, <<>>)

Init ==
    /\ Booted
    /\ parser_in = <<>>
    /\ parser_out = NoCall

\* the updates of the users in U
SendText(U, T, cap) ==
    \E u \in U, t \in T : MessageUpdate(u, t) /\ WritesWithin(cap)

TapConfirmWeight(U, cap) ==
    \E u \in U : CallbackUpdate(u, "confirm_weight", 0) /\ WritesWithin(cap)

TapEndTraining(U) == \E u \in U : CallbackUpdate(u, "end_training", 0)

TapChangeWeight(U) == \E u \in U : CallbackUpdate(u, "change_weight", 0)

TapRestart(U) == \E u \in U : MessageUpdate(u, RestartText)

TapUploadMode(U) == \E u \in U : CallbackUpdate(u, "mode_upload_program", 0)

TapSaveProgram(U) == \E u \in U : CallbackUpdate(u, "save_program", 0)

TapSelectWorkout(U) ==
    \E u \in U, n \in WorkoutNumbers : CallbackUpdate(u, "select_workout", n)

TapSelectProgram(U) ==
    \E u \in U, p \in ProgramIds : CallbackUpdate(u, "select_program", p)

\* one user sends updates
Next ==
    \/ SendText(Solo, WeightTexts, MaxWrites)
    \/ TapConfirmWeight(Solo, MaxWrites)
    \/ TapEndTraining(Solo)
    \/ TapChangeWeight(Solo)
    \/ TapRestart(Solo)
    \/ TapSelectWorkout(Solo)
    \/ TapSelectProgram(Solo)

Spec == Init /\ [][Next]_vars

\* the texts of the runs in which two users send updates
UsersTexts == { <<"6", "0">>, <<"+", "6", "0">> }

\* the answer to the last update has been delivered
Quiet == reply.msgs = <<>>

\* the answer to an update is delivered before the next update is taken
Deliver ==
    /\ ~Quiet
    /\ reply' = Sent(0, <<>>)
    /\ UNCHANGED <<workout_creation_sessions, parser_in, parser_out, today, fsm, temp_programs, training_sessions,
                   button_training_sessions, results, button_workout_results,
                   store>>

\* user u is in the dialogue that uploads a program
Uploading(u) ==
    fsm[u].state \in {"waiting_for_program_name_upload", "waiting_for_program_text"}

\* two users send updates, in any order; in the upload dialogue, where the
\* label of the restart button is taken as a name or as a program text, only
\* the first user presses the button
NextUsers ==
    \/ Quiet /\ SendText(Users, UsersTexts, MaxWritesUsers)
    \/ Quiet /\ TapConfirmWeight(Users, MaxWritesUsers)
    \/ Quiet /\ TapEndTraining(Users)
    \/ Quiet /\ TapChangeWeight(Users)
    \/ Quiet /\ TapRestart(Solo)
    \/ Quiet /\ TapRestart({u \in Users \ Solo : ~Uploading(u)})
    \/ Quiet /\ TapSelectWorkout(Users)
    \/ Quiet /\ TapSelectProgram(Users)
    \/ Quiet /\ TapUploadMode(Users)
    \/ Quiet /\ TapSaveProgram(Users)
    \/ Deliver

\* the runs of two users are runs of one day
InitUsers == Init /\ today = "Monday"

SpecUsers == InitUsers /\ [][NextUsers]_vars

\* ------------------------------------------------------------ the claims
\* The slots of a schedule: every set of every exercise, exercise by exercise,
\* numbered from 1 within its exercise.
RECURSIVE SlotsOf(_)
SlotsOf(exercises) ==
    IF Len(exercises) = 0 THEN <<>>
    ELSE LET e == exercises[Len(exercises)]
         IN  SlotsOf(SubSeq(exercises, 1, Len(exercises) - 1))
                \o [k \in 1..e.sets |-> [exercise |-> e.exercise, set_number |-> k]]

\* The slots of a button workout: the sets of every exercise as stored.
RECURSIVE ButtonSlotsOf(_)
ButtonSlotsOf(exercises) ==
    IF Len(exercises) = 0 THEN <<>>
    ELSE LET e == exercises[Len(exercises)]
         IN  ButtonSlotsOf(SubSeq(exercises, 1, Len(exercises) - 1))
                \o [k \in 1..Len(e.sets) |->
                       [exercise |-> e.exercise, set_number |-> e.sets[k].set_number]]

\* The position of a cursor: the index, from 1, of (current exercise, current
\* set) among the slots.
Position(session) ==
    Len(SlotsOf(SubSeq(session.exercises, 1, session.current_ex)))
        + session.current_set

ButtonPosition(session) ==
    Len(ButtonSlotsOf(SubSeq(session.exercises, 1, session.current_ex)))
        + session.current_set + 1

\* the user has a cursor, in either table
HasCursor(u) == u \in DOMAIN training_sessions \/ u \in DOMAIN button_training_sessions

\* the texts that are a positive number
PositiveTexts ==
    {t \in WeightTexts : LET f == ParseFloat(t) IN ~f.err /\ ~f.nan /\ f.val > 0}

\* the weight, in tenths, a text stands for
WeightOf(t) == ParseFloat(t).val

\* the last message of an answer
LastMsg(r) == r.msgs[Len(r.msgs)]

\* the step answers user u, and its first message has the tag
Answers(u, tag) ==
    /\ reply'.to = u
    /\ reply'.msgs # <<>>
    /\ reply'.msgs[1].tag = tag

\* the step appends exactly one row to rows
AppendsOne(rows, rows2) ==
    /\ Len(rows2) = Len(rows) + 1
    /\ SubSeq(rows2, 1, Len(rows)) = rows

\* The step writes weight w for the slot under user u's schedule cursor and
\* moves the cursor on by one slot, or removes it after the last slot and
\* announces completion.
ScheduleRecord(u, w) ==
    /\ u \in DOMAIN training_sessions
    /\ LET session == training_sessions[u]
           slots   == SlotsOf(session.exercises)
           p       == Position(session)
           row     == results'[Len(results')]
       IN  /\ p \in 1..Len(slots)
           /\ AppendsOne(results, results')
           /\ button_workout_results' = button_workout_results
           /\ row.user_id = u
           /\ row.exercise = slots[p].exercise
           /\ row.set_number = slots[p].set_number
           /\ row.weight = w
           /\ IF p < Len(slots)
              THEN /\ u \in DOMAIN training_sessions'
                   /\ training_sessions'[u].exercises = session.exercises
                   /\ Position(training_sessions'[u]) = p + 1
                   /\ LastMsg(reply').tag = "prompt"
                   /\ LastMsg(reply').exercise = slots[p + 1].exercise
                   /\ LastMsg(reply').set_number = slots[p + 1].set_number
              ELSE /\ u \notin DOMAIN training_sessions'
                   /\ LastMsg(reply').tag = "complete"

\* The same for the button cursor of user u.
ButtonRecord(u, w) ==
    /\ u \in DOMAIN button_training_sessions
    /\ LET session == button_training_sessions[u]
           slots   == ButtonSlotsOf(session.exercises)
           p       == ButtonPosition(session)
           row     == button_workout_results'[Len(button_workout_results')]
       IN  /\ p \in 1..Len(slots)
           /\ AppendsOne(button_workout_results, button_workout_results')
           /\ results' = results
           /\ row.user_id = u
           /\ row.workout_number = session.workout_number
           /\ row.exercise_name = slots[p].exercise
           /\ row.set_number = slots[p].set_number
           /\ row.weight = w
           /\ IF p < Len(slots)
              THEN /\ u \in DOMAIN button_training_sessions'
                   /\ button_training_sessions'[u].exercises = session.exercises
                   /\ ButtonPosition(button_training_sessions'[u]) = p + 1
                   /\ LastMsg(reply').tag = "prompt"
                   /\ LastMsg(reply').exercise = slots[p + 1].exercise
                   /\ LastMsg(reply').set_number = slots[p + 1].set_number
              ELSE /\ u \notin DOMAIN button_training_sessions'
                   /\ LastMsg(reply').tag = "complete"

\* C1: every weight message with a positive number that the bot acknowledges
\* as saved appends exactly one observation, under the user, exercise name
\* and set number of the slot the cursor is on and with the weight sent, and
\* then moves the cursor on by exactly one slot; after the last slot the
\* cursor is removed and completion is announced instead of a prompt.
C1_RecordWritesCurrentSlotAndAdvances ==
    [][\A u \in Users, t \in PositiveTexts :
          (MessageUpdate(u, t) /\ Answers(u, "saved"))
              => IF results' # results THEN ScheduleRecord(u, WeightOf(t))
                 ELSE ButtonRecord(u, WeightOf(t))]_vars

\* the step appends a row of user u to rows
WroteFor(u, rows, rows2) ==
    /\ Len(rows2) > Len(rows)
    /\ rows2[Len(rows2)].user_id = u

\* Within one schedule session of user u the cursor is on a slot, stays where
\* it is when the step writes nothing for u, moves on by exactly one slot when
\* the step writes an observation for u, and is removed by a write exactly
\* when it is on the last of the N slots.
ScheduleProgress(u) ==
    u \in DOMAIN training_sessions =>
        LET session == training_sessions[u]
            n       == Len(SlotsOf(session.exercises))
            p       == Position(session)
            wrote   == WroteFor(u, results, results')
        IN  /\ p \in 1..n
            /\ u \in DOMAIN training_sessions' =>
                  /\ training_sessions'[u].exercises = session.exercises
                  /\ Position(training_sessions'[u]) = IF wrote THEN p + 1 ELSE p
            /\ wrote => (u \notin DOMAIN training_sessions' <=> p = n)

\* The same for a button session of user u.
ButtonProgress(u) ==
    u \in DOMAIN button_training_sessions =>
        LET session == button_training_sessions[u]
            n       == Len(ButtonSlotsOf(session.exercises))
            p       == ButtonPosition(session)
            wrote   == WroteFor(u, button_workout_results, button_workout_results')
        IN  /\ p \in 1..n
            /\ u \in DOMAIN button_training_sessions' =>
                  /\ button_training_sessions'[u].exercises = session.exercises
                  /\ ButtonPosition(button_training_sessions'[u]) =
                         IF wrote THEN p + 1 ELSE p
            /\ wrote => (u \notin DOMAIN button_training_sessions' <=> p = n)

\* C2: in every session the position of the cursor, counted over the N slots
\* of the schedule (N the sum of the set counts), never decreases and never
\* skips a slot: it starts on the first slot, every successful record or
\* confirmation moves it on by exactly one, nothing else moves it, and the
\* session completes on the write made from slot N, so exactly N successful
\* calls complete it.  (A step that starts a session begins another session.)
C2_PositionCountsSuccessfulWrites ==
    [][\A u \in Users :
          ~Answers(u, "training_started")
              => ScheduleProgress(u) /\ ButtonProgress(u)]_vars

\* the texts that are not a positive number
InvalidTexts ==
    {t \in WeightTexts : LET f == ParseFloat(t) IN f.err \/ f.nan \/ f.val <= 0}

\* C3: a weight message whose text is not a positive number ("0", "-5",
\* "nan") is rejected without a change of state: no observation is written
\* and no cursor moves.
C3_InvalidWeightChangesNothing ==
    [][\A u \in Users, t \in InvalidTexts :
          MessageUpdate(u, t)
              => UNCHANGED <<results, button_workout_results,
                             training_sessions, button_training_sessions>>]_vars

\* the most recent weights recorded for the set under the schedule cursor of u
ScheduleHistory(u) ==
    LET session == training_sessions[u]
    IN  get_last_weight(results, u,
                        session.exercises[session.current_ex + 1].exercise,
                        session.current_set)

\* the most recent weights recorded for the set under the button cursor of u
ButtonHistory(u) ==
    LET session  == button_training_sessions[u]
        exercise == session.exercises[session.current_ex + 1]
    IN  get_last_button_workout_weight(
            button_workout_results, u, session.workout_number, exercise.exercise,
            exercise.sets[session.current_set + 1].set_number)

\* user u is in a schedule session only
ScheduleOnly(u) ==
    u \in DOMAIN training_sessions /\ u \notin DOMAIN button_training_sessions

\* C4: a tap on confirm_weight, when the set under the user's cursor has a
\* most recent observation of weight w, has exactly the effect of recording
\* w: one new observation with weight w for that set, and the cursor one slot
\* further (the session completed after the last slot).
C4_ConfirmIsRecordOfLastWeight ==
    [][\A u \in Users :
          CallbackUpdate(u, "confirm_weight", 0)
              => /\ (ScheduleOnly(u) /\ \E w \in ScheduleHistory(u) : Truthy(w))
                        => \E w \in ScheduleHistory(u) : ScheduleRecord(u, w)
                 /\ (/\ u \in DOMAIN button_training_sessions
                     /\ \E w \in ButtonHistory(u) : Truthy(w))
                        => \E w \in ButtonHistory(u) : ButtonRecord(u, w)]_vars

\* C5: a tap on confirm_weight, when no observation is recorded for the
\* exercise and set number under the user's cursor (whatever is recorded for
\* other set numbers of the exercise), is answered with "no previous weight"
\* and changes nothing: no observation is written and no cursor moves.
C5_ConfirmWithoutHistoryFails ==
    [][\A u \in Users :
          ( /\ CallbackUpdate(u, "confirm_weight", 0)
            /\ \/ ScheduleOnly(u) /\ ScheduleHistory(u) = {NULL}
               \/ /\ u \in DOMAIN button_training_sessions
                  /\ ButtonHistory(u) = {NULL} )
              => /\ Answers(u, "no_previous_weight")
                 /\ UNCHANGED <<results, button_workout_results,
                                training_sessions, button_training_sessions>>]_vars

\* the last update was a tap of user u on confirm_weight that was saved
JustConfirmed(u) ==
    /\ reply.to = u
    /\ reply.msgs # <<>>
    /\ reply.msgs[1].tag = "saved_alert"

\* The tap confirms the slot that follows the one the last row of the table was
\* written for: it reads the most recent weight of that slot and writes it
\* under that slot.
ButtonConfirmsNextSlot(u) ==
    /\ u \in DOMAIN button_training_sessions
    /\ LET session == button_training_sessions[u]
           slots   == ButtonSlotsOf(session.exercises)
           p       == ButtonPosition(session)
           first   == button_workout_results[Len(button_workout_results)]
           second  == button_workout_results'[Len(button_workout_results')]
       IN  /\ p \in 2..Len(slots)
           /\ first.user_id = u
           /\ first.exercise_name = slots[p - 1].exercise
           /\ first.set_number = slots[p - 1].set_number
           /\ AppendsOne(button_workout_results, button_workout_results')
           /\ second.user_id = u
           /\ second.exercise_name = slots[p].exercise
           /\ second.set_number = slots[p].set_number
           /\ second.weight \in
                 get_last_button_workout_weight(
                     button_workout_results, u, session.workout_number,
                     slots[p].exercise, slots[p].set_number)

ScheduleConfirmsNextSlot(u) ==
    /\ u \in DOMAIN training_sessions
    /\ LET session == training_sessions[u]
           slots   == SlotsOf(session.exercises)
           p       == Position(session)
           first   == results[Len(results)]
           second  == results'[Len(results')]
       IN  /\ p \in 2..Len(slots)
           /\ first.user_id = u
           /\ first.exercise = slots[p - 1].exercise
           /\ first.set_number = slots[p - 1].set_number
           /\ AppendsOne(results, results')
           /\ second.user_id = u
           /\ second.exercise = slots[p].exercise
           /\ second.set_number = slots[p].set_number
           /\ second.weight \in
                 get_last_weight(results, u, slots[p].exercise, slots[p].set_number)

\* C6: of two consecutive saved taps of a user on confirm_weight the second
\* never writes for the slot of the first: it reads and writes the exercise
\* and set number of the slot that follows the one the first confirmed.
C6_SecondConfirmTakesNextSlot ==
    [][\A u \in Users :
          ( /\ JustConfirmed(u)
            /\ CallbackUpdate(u, "confirm_weight", 0)
            /\ Answers(u, "saved_alert") )
              => IF results' # results THEN ScheduleConfirmsNextSlot(u)
                 ELSE ButtonConfirmsNextSlot(u)]_vars

\* two taps on confirm_weight in a row have been saved: the first under
\* (Squat, 1), the second under (Squat, 2)
C6_Witness ==
    /\ JustConfirmed(1)
    /\ Len(button_workout_results) = Len(SeedButtonResults) + 2
    /\ button_workout_results[Len(SeedButtonResults) + 1].set_number = 1
    /\ button_workout_results[Len(SeedButtonResults) + 2].set_number = 2
    /\ button_workout_results[Len(SeedButtonResults) + 2].weight = 550

\* a schedule session of today's exercises of program p, on its first set
FreshSchedule(u, p) ==
    /\ u \in DOMAIN training_sessions'
    /\ training_sessions'[u].exercises
          = get_program_by_id(programs, u, p, today)[today]
    /\ training_sessions'[u].current_ex = 0
    /\ training_sessions'[u].current_set = 1

\* a button session of the exercises of workout n, on its first set
FreshButton(u, n) ==
    /\ u \in DOMAIN button_training_sessions'
    /\ button_training_sessions'[u].exercises
          = get_button_workout_exercises(button_workout_exercises, u, n)
    /\ button_training_sessions'[u].current_ex = 0
    /\ button_training_sessions'[u].current_set = 0

\* C7: a session start that succeeds for a user who has a cursor replaces the
\* cursor: afterwards the only cursor of the user is the one built from the
\* exercises just loaded, on the first set of the first exercise, wherever
\* the cursor before had got to.
C7_StartReplacesCursor ==
    [][\A u \in Users :
          /\ \A p \in ProgramIds :
                ( /\ HasCursor(u)
                  /\ CallbackUpdate(u, "select_program", p)
                  /\ Answers(u, "training_started") )
                    => /\ FreshSchedule(u, p)
                       /\ u \notin DOMAIN button_training_sessions'
          /\ \A n \in WorkoutNumbers :
                ( /\ HasCursor(u)
                  /\ CallbackUpdate(u, "select_workout", n)
                  /\ Answers(u, "training_started") )
                    => /\ FreshButton(u, n)
                       /\ u \notin DOMAIN training_sessions']_vars

\* C8: after a tap on end_training the user has a cursor in neither table,
\* and the tap of a user without a cursor changes no state.
C8_EndRemovesEveryCursor ==
    [][\A u \in Users :
          CallbackUpdate(u, "end_training", 0)
              => /\ u \notin DOMAIN training_sessions'
                 /\ u \notin DOMAIN button_training_sessions'
                 /\ ~HasCursor(u)
                       => UNCHANGED <<fsm, temp_programs, training_sessions,
                                      button_training_sessions, results,
                                      button_workout_results, store>>]_vars

\* C9: while a user has no cursor (the session is completed or ended and no
\* session is started since), a weight message or a tap on confirm_weight of
\* the user writes no observation and creates no cursor.
C9_NoCursorNoWrite ==
    [][\A u \in Users :
          ( /\ ~HasCursor(u)
            /\ \/ \E t \in WeightTexts : MessageUpdate(u, t)
               \/ CallbackUpdate(u, "confirm_weight", 0) )
              => /\ UNCHANGED <<results, button_workout_results>>
                 /\ u \notin DOMAIN training_sessions'
                 /\ u \notin DOMAIN button_training_sessions']_vars

\* the Monday session has been completed by two records, and a weight sent
\* after that has been answered with "session not found"
C9_Witness ==
    /\ today = "Monday"
    /\ ~HasCursor(1)
    /\ Len(results) = 2
    /\ results[1].exercise = "Squat"
    /\ results[2].exercise = "Bench"
    /\ reply = Sent(1, <<Msg("session_not_found")>>)

\* the callback data of the buttons that carry no number
PlainCallbackData ==
    {"confirm_weight", "end_training", "change_weight", "mode_upload_program",
     "save_program"}

\* the step is an update of user a
UpdateOf(a) ==
    \/ \E t \in UsersTexts \cup {RestartText} : MessageUpdate(a, t)
    \/ \E d \in PlainCallbackData : CallbackUpdate(a, d, 0)
    \/ \E n \in WorkoutNumbers : CallbackUpdate(a, "select_workout", n)
    \/ \E p \in ProgramIds : CallbackUpdate(a, "select_program", p)

\* the step leaves the entry of key k in dictionary d as it is
SameEntry(d, d2, k) ==
    /\ k \in DOMAIN d <=> k \in DOMAIN d2
    /\ k \in DOMAIN d => d2[k] = d[k]

\* the set numbers a most recent weight is looked up for
SetNumbers == 1..3

\* the step leaves every most recent weight of user b as it is
SameLookups(b) ==
    \A i \in 1..Len(ExerciseNames), k \in SetNumbers :
        /\ get_last_weight(results', b, ExerciseNames[i], k)
              = get_last_weight(results, b, ExerciseNames[i], k)
        /\ \A n \in WorkoutNumbers :
              get_last_button_workout_weight(button_workout_results', b, n,
                                             ExerciseNames[i], k)
                = get_last_button_workout_weight(button_workout_results, b, n,
                                                 ExerciseNames[i], k)

\* the step leaves the cursors of user b, b's pending parsed program and
\* every most recent weight looked up for b as they are
Untouched(b) ==
    /\ SameEntry(training_sessions, training_sessions', b)
    /\ SameEntry(button_training_sessions, button_training_sessions', b)
    /\ SameEntry(temp_programs, temp_programs', b)
    /\ SameLookups(b)

\* C10: whatever the order in which the updates of two users arrive, an
\* update of user a (a session start, a weight, a confirmation, an end, a
\* restart, a program text, a save) leaves the cursors of every other user b,
\* b's pending parsed program and every most recent weight looked up for b as
\* they are: a step that changes one of them is not an update of a.
C10_UsersDoNotInterfere ==
    [][\A b \in Users : ~Untouched(b) => \A a \in Users \ {b} : ~UpdateOf(a)]_vars

\* user 1 has just recorded a weight for the first slot of the schedule
\* session, while user 2 has a schedule cursor and a pending parsed program
C10_Witness ==
    /\ reply.to = 1
    /\ reply.msgs # <<>>
    /\ reply.msgs[1].tag = "saved"
    /\ Len(results) = 1
    /\ results[1].user_id = 1
    /\ 1 \in DOMAIN training_sessions
    /\ 2 \in DOMAIN training_sessions
    /\ 2 \in DOMAIN temp_programs

\* ------------------------------------------------- sessions on two days
\* the weekday changes at midnight
Midnight ==
    /\ today = "Monday"
    /\ today' = "Tuesday"
    /\ reply' = Sent(0, <<>>)
    /\ UNCHANGED <<workout_creation_sessions, parser_in, parser_out, fsm, temp_programs, training_sessions,
                   button_training_sessions, results, button_workout_results,
                   store>>

\* the text of the runs over two days
DaysTexts == { <<"+", "6", "0">> }

\* one user trains by the schedule on Monday and on Tuesday
NextDays ==
    \/ Midnight
    \/ SendText(Solo, DaysTexts, MaxWrites)
    \/ TapChangeWeight(Solo)
    \/ TapSelectProgram(Solo)
    \/ TapEndTraining(Solo)

InitDays == Init /\ today = "Monday"

SpecDays == InitDays /\ [][NextDays]_vars

\* the weights of the rows of results of user u, exercise name e and set
\* number k that carry the latest date among these rows, whatever the day
\* and the program entry they were written under
LatestOfKey(u, e, k) ==
    LET idx == {i \in 1..Len(results) : /\ results[i].user_id = u
                                        /\ results[i].exercise = e
                                        /\ results[i].set_number = k}
    IN  {results[i].weight : i \in {j \in idx : \A h \in idx :
                                        results[h].date <= results[j].date}}

\* C11: the default weight a schedule session offers for a slot is looked up
\* by user, exercise name and set number only: every prompt for exercise E,
\* set k offers the most recent weight recorded for (user, E, k), whichever
\* day or program entry it was recorded under, and offers none only when
\* nothing is recorded for (user, E, k).
C11_DefaultIsKeyedByNameAndSet ==
    \A i \in 1..Len(reply.msgs) :
        reply.msgs[i].tag = "prompt" =>
            LET m  == reply.msgs[i]
                ws == LatestOfKey(reply.to, m.exercise, m.set_number)
            IN  IF ws = {} THEN m.weight = NULL
                ELSE m.weight \in {IF Truthy(w) THEN w ELSE NULL : w \in ws}

\* on Tuesday the prompt for (Squat, 1) offers the weight recorded for
\* (Squat, 1) on Monday
C11_Witness ==
    /\ today = "Tuesday"
    /\ Len(results) = 1
    /\ results[1].day = "Monday"
    /\ results[1].exercise = "Squat"
    /\ results[1].set_number = 1
    /\ reply.to = 1
    /\ reply.msgs # <<>>
    /\ LastMsg(reply) = Prompt("Squat", 1, 600)

\* the weight of the row of results appended last for (u, e, k); {} when
\* there is none
LastAppended(u, e, k) ==
    LET idx == {i \in 1..Len(results) : /\ results[i].user_id = u
                                        /\ results[i].exercise = e
                                        /\ results[i].set_number = k}
    IN  {results[i].weight : i \in {j \in idx : \A h \in idx : h <= j}}

\* the same for the rows of button_workout_results of (u, n, e, k)
ButtonLastAppended(u, n, e, k) ==
    LET idx == {i \in 1..Len(button_workout_results) :
                   /\ button_workout_results[i].user_id = u
                   /\ button_workout_results[i].workout_number = n
                   /\ button_workout_results[i].exercise_name = e
                   /\ button_workout_results[i].set_number = k}
    IN  {button_workout_results[i].weight :
            i \in {j \in idx : \A h \in idx : h <= j}}

\* C13: for every key with a recorded weight the lookup of the most recent
\* weight returns one value, the weight of the row appended last for the key,
\* also when rows of the key carry the same date.
C13_LookupReturnsLastAppended ==
    \A u \in Users, i \in 1..Len(ExerciseNames), k \in SetNumbers :
        /\ LastAppended(u, ExerciseNames[i], k) # {}
              => get_last_weight(results, u, ExerciseNames[i], k)
                    = LastAppended(u, ExerciseNames[i], k)
        /\ \A n \in WorkoutNumbers :
              ButtonLastAppended(u, n, ExerciseNames[i], k) # {}
                  => get_last_button_workout_weight(button_workout_results, u, n,
                                                    ExerciseNames[i], k)
                        = ButtonLastAppended(u, n, ExerciseNames[i], k)

\* ------------------------------------------------ writes that fail
\* what is left of an update of user_id whose handler raised: nothing is
\* sent, the dispatcher logs the exception
Raised(user_id) == [to |-> user_id, msgs |-> <<>>]

\* the handlers with "the cursor moves on" put before the call that raises
AdvanceThenRaise(user_id) ==
    /\ reply' = Raised(user_id)
    /\ training_sessions' = move_to_next_set(training_sessions, user_id).sessions
    /\ button_training_sessions' =
          IF user_id \in DOMAIN button_training_sessions
          THEN [button_training_sessions EXCEPT ![user_id].current_set = @ + 1]
          ELSE button_training_sessions
    /\ UNCHANGED <<workout_creation_sessions, fsm, temp_programs, results, button_workout_results>>

\* process_weight_input, process_button_workout_weight and
\* confirm_button_workout_weight when save_result or
\* save_button_workout_result raises (sqlite3.OperationalError): the INSERT
\* is not committed and the statements after the call are not executed
SaveRaises(user_id) ==
    /\ reply' = Raised(user_id)
    /\ UNCHANGED <<workout_creation_sessions, fsm, temp_programs, training_sessions,
                   button_training_sessions, results, button_workout_results>>

\* a weight message of a user whose handler gets as far as the write, and the
\* write fails
FailedTextWrite(U, T) ==
    \E u \in U, t \in T :
        LET h == MessageHandler(u, t)
            f == ParseFloat(t)
        IN  /\ ~f.err /\ ~NonPositive(f)
            /\ \/ /\ h = "process_button_workout_weight"
                  /\ u \in DOMAIN button_training_sessions
               \/ /\ h = "process_weight_input"
                  /\ u \in DOMAIN training_sessions
                  /\ LET session == training_sessions[u]
                     IN  Truthy(session.exercises[session.current_ex + 1].exercise_id)
            /\ SaveRaises(u)
            /\ UNCHANGED <<parser_in, parser_out, today, store>>

\* a tap on confirm_weight that gets as far as the write, and the write fails
FailedConfirm(U) ==
    \E u \in U :
        /\ u \in DOMAIN button_training_sessions
        /\ LET session  == button_training_sessions[u]
               exercise == session.exercises[session.current_ex + 1]
           IN  \E lw \in get_last_button_workout_weight(
                             button_workout_results, u, session.workout_number,
                             exercise.exercise,
                             exercise.sets[session.current_set + 1].set_number) :
                  Truthy(lw)
        /\ SaveRaises(u)
        /\ UNCHANGED <<parser_in, parser_out, today, store>>

\* one user trains on Monday, and the store may fail at any write
NextFaults ==
    \/ SendText(Solo, UsersTexts, MaxWrites)
    \/ TapConfirmWeight(Solo, MaxWrites)
    \/ TapEndTraining(Solo)
    \/ TapChangeWeight(Solo)
    \/ TapSelectWorkout(Solo)
    \/ TapSelectProgram(Solo)
    \/ FailedTextWrite(Solo, UsersTexts)
    \/ FailedConfirm(Solo)

InitFaults == Init /\ today = "Monday"

SpecFaults == InitFaults /\ [][NextFaults]_vars

SameSchedule(loaded, schedule) ==
    /\ DOMAIN loaded = DOMAIN schedule
    /\ \A d \in DOMAIN schedule :
          /\ Len(loaded[d]) = Len(schedule[d])
          /\ \A i \in 1..Len(schedule[d]) :
                /\ loaded[d][i].exercise = schedule[d][i].exercise
                /\ loaded[d][i].sets = schedule[d][i].sets

\* C19: a tap on save_program of a user with a pending parsed program
\* creates one program of the user under the pending name, stores exactly
\* the parsed schedule under it and removes the pending program.
C19_SaveTapStoresPendingProgram ==
    [][\A u \in Users :
          (CallbackUpdate(u, "save_program", 0) /\ u \in DOMAIN temp_programs)
              => /\ u \notin DOMAIN temp_programs'
                 /\ Len(workout_programs') = Len(workout_programs) + 1
                 /\ LET new == workout_programs'[Len(workout_programs')]
                    IN  /\ new.user_id = u
                        /\ new.program_name = temp_programs[u].program_name
                        /\ SameSchedule(
                               get_program_by_id(programs', u, new.id, ""),
                               temp_programs[u].program)]_vars

\* ------------------------------------------- writes to the schedule tables
\* MaxNewRows bounds the rows the runs below insert into table programs
MaxNewRows == 5

\* "Тренировка N", the day label of a workout of a manual program
WorkoutDay(workout_number) == IF workout_number = 1 THEN "Workout 1" ELSE "Workout"

\* the day labels a row of table programs carries in the runs below
StoreDays == Days \cup {WorkoutDay(1)}

\* the order in which a schedule lists its days (only the ids of the rows
\* depend on it)
DayOrder == <<"Monday", "Tuesday">>

\* the rows one day of a schedule is flattened into: order_index is the
\* position in the day's list, counted from 0; the id is given at the INSERT
ProgramRows(user_id, program_id, day, exercises) ==
    [i \in 1..Len(exercises) |->
        [id |-> 0, program_id |-> program_id, user_id |-> user_id, day |-> day,
         exercise |-> exercises[i].exercise, sets |-> exercises[i].sets,
         order_index |-> i - 1]]

\* the rows of a whole schedule, day after day
RECURSIVE ScheduleRows(_, _, _, _)
ScheduleRows(user_id, program_id, program_data, days) ==
    IF Len(days) = 0 THEN <<>>
    ELSE (IF Head(days) \in DOMAIN program_data
          THEN ProgramRows(user_id, program_id, Head(days), program_data[Head(days)])
          ELSE <<>>)
         \o ScheduleRows(user_id, program_id, program_data, Tail(days))

\* INSERT INTO programs, row after row: AUTOINCREMENT gives each row the id
\* after the largest one the table has ever given out
InsertPrograms(progs, seq, rows) ==
    [programs |-> progs \o [i \in 1..Len(rows) |->
                               [rows[i] EXCEPT !.id = seq.programs + i]],
     sqlite_sequence |-> [seq EXCEPT !.programs = @ + Len(rows)]]

\* save_program_with_id without its DELETE of the old rows
save_program_with_id_keeping_rows(progs, seq, user_id, program_id, program_data) ==
    InsertPrograms(progs, seq, ScheduleRows(user_id, program_id, program_data, DayOrder))

\* save_program_with_id with "DELETE FROM programs WHERE program_id = ?"
save_program_with_id_of_any_user(progs, seq, user_id, program_id, program_data) ==
    LET Kept(r) == r.program_id # program_id
    IN  InsertPrograms(SelectSeq(progs, Kept), seq,
                       ScheduleRows(user_id, program_id, program_data, DayOrder))

\* database.save_program_with_id: the rows of (program_id, user_id) are
\* deleted, then the schedule is inserted
save_program_with_id(progs, seq, user_id, program_id, program_data) ==
    LET Kept(r) == ~(r.program_id = program_id /\ r.user_id = user_id)
    IN  InsertPrograms(SelectSeq(progs, Kept), seq,
                       ScheduleRows(user_id, program_id, program_data, DayOrder))

\* database.save_manual_program_workout: the rows of one day of the program
\* are deleted, then the workout is inserted with len(sets) as its set count
save_manual_program_workout(progs, seq, user_id, program_id, workout_number, exercises) ==
    LET day == WorkoutDay(workout_number)
        Kept(r) == ~(r.program_id = program_id /\ r.user_id = user_id /\ r.day = day)
        counted == [i \in 1..Len(exercises) |->
                       [exercise |-> exercises[i].exercise,
                        sets |-> Len(exercises[i].sets)]]
    IN  InsertPrograms(SelectSeq(progs, Kept), seq,
                       ProgramRows(user_id, program_id, day, counted))

\* database.delete_workout_program: DELETE FROM workout_programs. The
\* connections of get_connection never execute PRAGMA foreign_keys = ON, and
\* SQLite enforces no foreign key without it: ON DELETE CASCADE deletes
\* nothing, in table programs or elsewhere
delete_workout_program(wps, user_id, program_id) ==
    LET Kept(r) == ~(r.id = program_id /\ r.user_id = user_id)
    IN  SelectSeq(wps, Kept)

\* the rows of one exercise of a button workout, one per set
ButtonExerciseRows(user_id, workout_number, exercise) ==
    [j \in 1..Len(exercise.sets) |->
        [user_id |-> user_id, workout_number |-> workout_number,
         exercise_name |-> exercise.exercise,
         set_number |-> exercise.sets[j].set_number,
         reps |-> exercise.sets[j].reps]]

\* the rows of a list of exercises, exercise after exercise
RECURSIVE ButtonWorkoutRows(_, _, _)
ButtonWorkoutRows(user_id, workout_number, exercises) ==
    IF Len(exercises) = 0 THEN <<>>
    ELSE ButtonExerciseRows(user_id, workout_number, Head(exercises))
         \o ButtonWorkoutRows(user_id, workout_number, Tail(exercises))

\* database.save_button_workout: INSERT OR REPLACE of the workout (one row
\* per user and number), DELETE of its old exercises, INSERT of the new ones
save_button_workout(bws, bwe, user_id, workout_number, workout_name, exercises) ==
    LET Other(r) == ~(r.user_id = user_id /\ r.workout_number = workout_number)
    IN  [button_workouts |->
            Append(SelectSeq(bws, Other),
                   [user_id |-> user_id, workout_number |-> workout_number,
                    workout_name |-> workout_name]),
         button_workout_exercises |->
            SelectSeq(bwe, Other)
                \o ButtonWorkoutRows(user_id, workout_number, exercises)]

\* ------------------------------------------------- edits of stored programs
\* schedules as parse_program returns them: "ПН: Squat 2x10, Bench 1x10",
\* "ПН: ; ВТ: Bench 3x10" (a day without an exercise), and
\* "ПН: Bench 1x10, Bench 2x10" (one name twice)
ParsedSchedules ==
    { [d \in {"Monday"} |-> << [exercise |-> "Squat", sets |-> 2],
                               [exercise |-> "Bench", sets |-> 1] >>],
      [d \in {"Monday", "Tuesday"} |->
          IF d = "Monday" THEN <<>> ELSE << [exercise |-> "Bench", sets |-> 3] >>],
      [d \in {"Monday"} |-> << [exercise |-> "Bench", sets |-> 1],
                               [exercise |-> "Bench", sets |-> 2] >>] }

\* lists of exercises in the format save_button_workout documents
WorkoutLists ==
    { << [exercise |-> "Squat", sets |-> << [set_number |-> 1, reps |-> 10] >>],
         [exercise |-> "Bench", sets |-> << [set_number |-> 1, reps |-> 12],
                                            [set_number |-> 2, reps |-> 8] >>] >>,
      << [exercise |-> "Bench", sets |-> << [set_number |-> 1, reps |-> 10] >>],
         [exercise |-> "Squat", sets |-> << [set_number |-> 1, reps |-> 5] >>] >> }

WorkoutNames == {"Push"}

\* the step inserts no more rows into table programs than the bound allows
RowsWithin == sqlite_sequence'.programs <= Len(SeedPrograms) + MaxNewRows

\* a call of save_program_with_id
SaveProgramOf(user_id, program_id, program_data) ==
    LET s == save_program_with_id(programs, sqlite_sequence, user_id, program_id,
                                  program_data)
    IN  /\ programs' = s.programs
        /\ sqlite_sequence' = s.sqlite_sequence
        /\ reply' = Sent(0, <<>>)
        /\ UNCHANGED <<workout_creation_sessions, parser_in, parser_out, today, fsm, temp_programs, training_sessions,
                       button_training_sessions, workout_programs, button_workouts,
                       button_workout_exercises, results, button_workout_results>>

\* a call of save_manual_program_workout
SaveManualWorkoutOf(user_id, program_id, workout_number, exercises) ==
    LET s == save_manual_program_workout(programs, sqlite_sequence, user_id,
                                         program_id, workout_number, exercises)
    IN  /\ programs' = s.programs
        /\ sqlite_sequence' = s.sqlite_sequence
        /\ reply' = Sent(0, <<>>)
        /\ UNCHANGED <<workout_creation_sessions, parser_in, parser_out, today, fsm, temp_programs, training_sessions,
                       button_training_sessions, workout_programs, button_workouts,
                       button_workout_exercises, results, button_workout_results>>

\* start.delete_program_callback, the handler of the delete_program_N buttons
delete_program_callback(user_id, program_id) ==
    /\ workout_programs' = delete_workout_program(workout_programs, user_id, program_id)
    /\ reply' = Sent(user_id, <<Msg("program_deleted"), Msg("choose_mode")>>)
    /\ UNCHANGED <<workout_creation_sessions, parser_in, parser_out, today, fsm, temp_programs, training_sessions,
                   button_training_sessions, programs, button_workouts,
                   button_workout_exercises, sqlite_sequence, results,
                   button_workout_results>>

\* button_workouts.process_exercises, the handler of state
\* waiting_for_exercises, for a text that parse_exercise_with_reps reads as
\* the exercises of session, whose number and name the dialogue has collected
process_exercises(user_id, session) ==
    /\ workout_creation_sessions' = DictSet(workout_creation_sessions, user_id, session)
    /\ fsm' = [fsm EXCEPT ![user_id].state = "confirming_workout"]
    /\ reply' = Sent(user_id, <<Msg("workout_preview")>>)
    /\ UNCHANGED <<parser_in, parser_out, today, temp_programs, training_sessions,
                   button_training_sessions, results, button_workout_results, store>>

\* button_workouts.confirm_workout, the handler of the confirm_workout button,
\* when workout_creation_sessions is sessions
confirm_workout(user_id, sessions) ==
    IF user_id \notin DOMAIN sessions
    THEN /\ reply' = Sent(user_id, <<Msg("creation_session_not_found")>>)
         /\ workout_creation_sessions' = sessions
         /\ UNCHANGED <<parser_in, parser_out, today, fsm, temp_programs,
                        training_sessions, button_training_sessions, results,
                        button_workout_results, store>>
    ELSE LET session == sessions[user_id]
             s == save_button_workout(button_workouts, button_workout_exercises, user_id,
                                      session.workout_number, session.workout_name,
                                      session.exercises)
         IN  /\ button_workouts' = s.button_workouts
             /\ button_workout_exercises' = s.button_workout_exercises
             /\ workout_creation_sessions' = DictDel(sessions, user_id)
             /\ fsm' = [fsm EXCEPT ![user_id] = Cleared]
             /\ reply' = Sent(user_id, <<Msg("workout_saved"), Msg("choose_workout")>>)
             /\ UNCHANGED <<parser_in, parser_out, today, temp_programs, training_sessions,
                            button_training_sessions, workout_programs, programs,
                            sqlite_sequence, results, button_workout_results>>

\* the entries process_exercises puts into workout_creation_sessions
CreationSessions ==
    [workout_number : WorkoutNumbers, workout_name : WorkoutNames,
     exercises : WorkoutLists]

SaveProgram(U, schedules) ==
    \E u \in U, p \in ProgramIds, schedule \in schedules :
        SaveProgramOf(u, p, schedule) /\ RowsWithin

SaveManualWorkout(U) ==
    \E u \in U, p \in ProgramIds, exercises \in WorkoutLists :
        SaveManualWorkoutOf(u, p, 1, exercises) /\ RowsWithin

TapDeleteProgram(U) == \E u \in U, p \in ProgramIds : delete_program_callback(u, p)

\* the user sends the exercises of a workout and taps confirm_workout on the
\* preview, with no other update between the two
CreateWorkout(U, sessions) ==
    \E u \in U, session \in sessions :
        confirm_workout(u, DictSet(workout_creation_sessions, u, session))

\* programs and workouts are saved, replaced and deleted
NextStore ==
    \/ SaveProgram(Solo, ParsedSchedules)
    \/ SaveManualWorkout(Solo)
    \/ TapDeleteProgram(Solo)
    \/ CreateWorkout(Solo, CreationSessions)
    \/ TapSelectWorkout(Solo)

InitStore == Init /\ today = "Monday"

SpecStore == InitStore /\ [][NextStore]_vars

\* -------------------------------------------------------------------- C16
\* the entries get_program_by_id returns for one day of a program
Load(progs, u, p, d) ==
    LET loaded == get_program_by_id(progs, u, p, d)
    IN  IF d \in DOMAIN loaded THEN loaded[d] ELSE <<>>

\* the entries are listed in the order in which their rows were inserted
InsertionOrdered(entries) ==
    \A i, j \in 1..Len(entries) :
        i < j => entries[i].exercise_id < entries[j].exercise_id

\* the entries name the exercises of the list, in the order of the list
SameNames(entries, exercises) ==
    /\ Len(entries) = Len(exercises)
    /\ \A i \in 1..Len(entries) : entries[i].exercise = exercises[i].exercise

\* C16: for every stored program and day, loading the day returns its entries
\* in the order in which the last save of that day inserted them; a save of a
\* program returns every day of the schedule in the order of its list, a save
\* of one workout of a manual program does so for that day, and neither
\* changes what loading any other program or day returns.
C16_LoadOrderIsInsertionOrder ==
    [][/\ \A u \in Users, p \in ProgramIds, d \in StoreDays :
              InsertionOrdered(Load(programs', u, p, d))
       /\ \A u \in Users, p \in ProgramIds, schedule \in ParsedSchedules :
              SaveProgramOf(u, p, schedule) =>
                  /\ \A d \in DOMAIN schedule :
                         SameNames(Load(programs', u, p, d), schedule[d])
                  /\ \A u2 \in Users, p2 \in ProgramIds, d \in StoreDays :
                         <<u2, p2>> # <<u, p>> =>
                             Load(programs', u2, p2, d) = Load(programs, u2, p2, d)
       /\ \A u \in Users, p \in ProgramIds, exercises \in WorkoutLists :
              SaveManualWorkoutOf(u, p, 1, exercises) =>
                  /\ SameNames(Load(programs', u, p, WorkoutDay(1)), exercises)
                  /\ \A u2 \in Users, p2 \in ProgramIds, d \in StoreDays :
                         <<u2, p2, d>> # <<u, p, WorkoutDay(1)>> =>
                             Load(programs', u2, p2, d) = Load(programs, u2, p2, d)
      ]_vars

\* program 1 was replaced by "Squat 2x10, Bench 1x10", then another program
\* and another day of program 1 were saved: Monday still loads Squat, Bench
C16_Witness ==
    /\ Load(programs, 1, 1, "Monday")
          = << [exercise_id |-> 6, exercise |-> "Squat", sets |-> 2],
               [exercise_id |-> 7, exercise |-> "Bench", sets |-> 1] >>
    /\ Len(Load(programs, 1, 2, "Tuesday")) = 1
    /\ Len(Load(programs, 1, 1, WorkoutDay(1))) = 2

\* -------------------------------------------------------------------- C17
\* the exercises of a button workout in the order in which save_button_workout
\* inserted their rows
ButtonWorkoutExercisesAsSaved(u, n) ==
    LET Match(r) == r.user_id = u /\ r.workout_number = n
        rows  == SelectSeq(button_workout_exercises, Match)
        names == NamesInOrder(rows)
    IN  [i \in 1..Len(names) |->
            LET OfName(r) == r.exercise_name = names[i]
                mine == SelectSeq(rows, OfName)
            IN  [exercise |-> names[i],
                 sets |-> [j \in 1..Len(mine) |->
                              [set_number |-> mine[j].set_number,
                               reps |-> mine[j].reps]]]]

\* C17: a button workout saved with the exercises e_1, ..., e_m is read back
\* by get_button_workout_exercises as e_1, ..., e_m, in that order and with
\* the same sets per exercise, and a session started with select_workout
\* holds that list.
C17_ButtonWorkoutKeepsSavedOrder ==
    [][/\ \A u \in Users, session \in CreationSessions :
              confirm_workout(u, DictSet(workout_creation_sessions, u, session)) =>
                  get_button_workout_exercises(button_workout_exercises', u,
                                               session.workout_number)
                      = session.exercises
       /\ \A u \in Users, n \in WorkoutNumbers :
              (/\ select_workout(u, n)
               /\ u \in DOMAIN button_training_sessions') =>
                  ButtonSlotsOf(button_training_sessions'[u].exercises)
                      = ButtonSlotsOf(ButtonWorkoutExercisesAsSaved(u, n))
      ]_vars

\* -------------------------------------------------------------------- C18
\* C18: after delete_workout_program(user, program_id) no row of that program
\* is left in table programs: loading the program id, for one day or for all
\* days, returns an empty schedule.
C18_DeleteCascadesToEntries ==
    [][\A u \in Users, p \in ProgramIds :
           delete_program_callback(u, p) =>
               /\ \A i \in 1..Len(programs') :
                      ~(programs'[i].user_id = u /\ programs'[i].program_id = p)
               /\ \A d \in StoreDays \cup {""} :
                      DOMAIN get_program_by_id(programs', u, p, d) = {}
      ]_vars

\* -------------------------------------------------------------------- C20
\* C20: for every schedule the parser returns, saving it with
\* save_program_with_id and loading it with get_program_by_id gives the same
\* day labels and, for each day, the same sequence of exercise names and set
\* counts.
C20_SaveLoadRoundTrip ==
    [][\A u \in Users, p \in ProgramIds, schedule \in ParsedSchedules :
           SaveProgramOf(u, p, schedule) =>
               SameSchedule(get_program_by_id(programs', u, p, ""), schedule)
      ]_vars

\* --------------------------------- sessions while the store is being edited
\* the schedule that replaces a stored program: "ПН: Squat 2x10, Bench 1x10"
EditsSchedules ==
    { [d \in {"Monday"} |-> << [exercise |-> "Squat", sets |-> 2],
                               [exercise |-> "Bench", sets |-> 1] >>] }

\* one user trains; programs and workouts are replaced and deleted meanwhile;
\* the answer to an update is delivered before the next update is taken
NextEdits ==
    \/ Quiet /\ SendText(Solo, UsersTexts, MaxWrites)
    \/ Quiet /\ TapConfirmWeight(Solo, MaxWrites)
    \/ Quiet /\ TapEndTraining(Solo)
    \/ Quiet /\ TapChangeWeight(Solo)
    \/ Quiet /\ TapRestart(Solo)
    \/ Quiet /\ TapSelectWorkout(Solo)
    \/ Quiet /\ TapSelectProgram(Solo)
    \/ Quiet /\ SaveProgram(Solo, EditsSchedules)
    \/ Quiet /\ TapDeleteProgram(Solo)
    \/ Quiet /\ CreateWorkout(Solo, CreationSessions)
    \/ Deliver

InitEdits == Init /\ today = "Monday"

SpecEdits == InitEdits /\ [][NextEdits]_vars

\* -------------------------------------------------------------------- C12
\* every row of rows is still in rows2, at its place and as it was written
KeepsRows(rows, rows2) ==
    /\ Len(rows) <= Len(rows2)
    /\ SubSeq(rows2, 1, Len(rows)) = rows

\* the step is a successful record or confirm call: the handler acknowledges
\* the weight it saved
AcknowledgesWeight ==
    \E i \in 1..Len(reply'.msgs) : reply'.msgs[i].tag \in {"saved", "saved_alert"}

Remaining(session) ==
    LET slots == SlotsOf(session.exercises)
    IN  SubSeq(slots, Position(session), Len(slots))

\* the step starts a session of user u
StartsSession(u) ==
    \/ \E p \in ProgramIds : CallbackUpdate(u, "select_program", p)
    \/ \E n \in WorkoutNumbers : CallbackUpdate(u, "select_workout", n)

\* C15: a running session works on the snapshot of the schedule taken when it
\* was started. A step that does not start a session of the user leaves the
\* exercises of the session as they were, whatever was saved or deleted in
\* the store since; a record takes the first of the remaining slots of the
\* snapshot, and completes the session only when that slot was the last.
C15_SessionWorksOnSnapshot ==
    [][\A u \in Users :
          /\ u \in DOMAIN training_sessions =>
                \/ /\ u \in DOMAIN training_sessions'
                   /\ training_sessions'[u].exercises = training_sessions[u].exercises
                   /\ Remaining(training_sessions'[u])
                         = IF Len(results') > Len(results)
                           THEN Tail(Remaining(training_sessions[u]))
                           ELSE Remaining(training_sessions[u])
                \/ /\ u \notin DOMAIN training_sessions'
                   /\ Len(results') > Len(results)
                         => Len(Remaining(training_sessions[u])) = 1
                \/ StartsSession(u)
          /\ (/\ u \in DOMAIN button_training_sessions
              /\ u \in DOMAIN button_training_sessions') =>
                \/ button_training_sessions'[u].exercises
                      = button_training_sessions[u].exercises
                \/ StartsSession(u)
      ]_vars

\* the session of user 1 was started from the stored Monday (Squat, one set),
\* the program was then replaced (Squat, two sets) and deleted, and the record
\* that followed moved the session on to Bench
C15_Witness ==
    /\ 1 \in DOMAIN training_sessions
    /\ training_sessions[1].exercises[1].sets = 1
    /\ training_sessions[1].current_ex = 1
    /\ Load(programs, 1, training_sessions[1].program_id, "Monday")[1].sets = 2
    /\ get_user_programs(workout_programs, 1) = <<>>
    /\ reply.msgs # <<>>
    /\ reply.msgs[1].tag \in {"saved", "saved_alert"}

\* --------------------------------------------------- calls of parse_program
\* MaxExercises bounds the exercises of one day of a text, MaxRun the numbers
\* of a run such as 20-16-14-12
MaxExercises == 2
MaxRun == 4

\* the non-empty sequences of at most n elements of S
SeqsUpTo(S, n) == UNION {[1..k -> S] : k \in 1..n}

\* str.join
RECURSIVE Join(_, _)
Join(parts, sep) ==
    IF Len(parts) = 0 THEN <<>>
    ELSE IF Len(parts) = 1 THEN parts[1]
    ELSE parts[1] \o sep \o Join(Tail(parts), sep)

\* day tokens and the days DAY_MAPPING gives them: ПН, ВТ, ПТ
DayTokens ==
    { [token |-> <<"P", "N">>, day |-> "Monday"],
      [token |-> <<"V", "T">>, day |-> "Tuesday"],
      [token |-> <<"P", "T">>, day |-> "Friday"] }

\* exercises written "name N x R": one word, two words, a Latin word; the
\* counts 3, 12 and 0; either glyph
CountedExercises ==
    [name : { <<"zh">>, <<"zh", " ", "en">>, <<"h">> },
     count : { <<"3">>, <<"1", "2">>, <<"0">> },
     glyph : {"x", "kh"}]

CountedText(e) == e.name \o <<" ">> \o e.count \o <<e.glyph, "1", "0">>

\* exercises written "name — r1-r2-...-rk": the name may hold a hyphen
RunNumbers == << <<"2", "0">>, <<"1", "6">>, <<"8">> >>

RunExercises ==
    [name : { <<"zh">>, <<"zh", "-", "zh">>, <<"zh", " ", "en">> }, k : 1..MaxRun]

RunText(e) ==
    e.name \o <<" ", "EM", " ">>
        \o Join([i \in 1..e.k |-> RunNumbers[((i - 1) % Len(RunNumbers)) + 1]], <<"-">>)

\* the texts of a list: "a, b" and one line per exercise
ListText(l, Text(_), sep) == Join([i \in 1..Len(l) |-> Text(l[i])], sep)

\* "DAY: name1 N1xR1, name2 N2xR2"
InlineText(d, l) == d.token \o <<":", " ">> \o ListText(l, CountedText, <<",", " ">>)

InlineInputs ==
    { [form |-> "inline", parts |-> <<d, l>>, text |-> InlineText(d, l)] :
        d \in DayTokens, l \in SeqsUpTo(CountedExercises, MaxExercises) }

\* a few exercises for the texts of several days
FewExercises == {e \in CountedExercises : e.name # <<"h">> /\ e.count # <<"0">> /\ e.glyph = "x"}

\* blocks "DAY: exercise" for distinct days, separated by sep
BlocksText(bs, sep) ==
    Join([i \in 1..Len(bs) |-> InlineText(bs[i].d, <<bs[i].e>>)], sep)

BlockLists ==
    {bs \in [1..2 -> [d : DayTokens, e : FewExercises]] : bs[1].d # bs[2].d}
    \cup {bs \in [1..3 -> [d : DayTokens, e : {CHOOSE e \in FewExercises : TRUE}]] :
             bs[1].d # bs[2].d /\ bs[1].d # bs[3].d /\ bs[2].d # bs[3].d}

BlockInputs ==
    { [form |-> "blocks", parts |-> bs, text |-> BlocksText(bs, sep)] :
        bs \in BlockLists, sep \in { <<";", " ">>, <<"LF">> } }

\* a day header, an exercise line, an inline line of another day, an exercise
\* line
MixedText(m) ==
    Join(<< m.open.token, CountedText(m.before), InlineText(m.inline, <<m.listed>>),
            CountedText(m.after) >>, <<"LF">>)

MixedInputs ==
    { [form |-> "mixed", parts |-> m, text |-> MixedText(m)] :
        m \in { m \in [open : DayTokens, before : FewExercises, inline : DayTokens,
                       listed : FewExercises, after : FewExercises] :
                   m.open # m.inline /\ m.before # m.after } }

\* "DAY label" or "DAY", then one line per exercise
HeaderText(h, l) ==
    Join(<< h.d.token \o h.label, ListText(l, RunText, <<"LF">>) >>, <<"LF">>)

HeaderInputs ==
    { [form |-> "header", parts |-> <<h, l>>, text |-> HeaderText(h, l)] :
        h \in [d : DayTokens, label : { <<>>, <<" ", "zh", "en">> }],
        l \in SeqsUpTo(RunExercises, MaxExercises) }

\* texts without a day token, a separator or a number ("hello"), and texts
\* whose day has no exercise ("ПН:", "ПН", "ПН: ; ВТ: ж 3x10")
OtherInputs ==
    { [form |-> "plain", parts |-> <<>>, text |-> t] :
        t \in { <<"h", "e", "l", "l", "o">>, <<"h">>, <<"zh", " ", "zh">> } }
    \cup
    { [form |-> "bare", parts |-> <<>>, text |-> t] :
        t \in { <<"P", "N", ":">>, <<"P", "N">>,
                <<"P", "N", ":", " ", ";", " ", "V", "T", ":", " ", "zh", " ",
                  "3", "x", "1", "0">> } }

\* the most blocks a text of day headers is made of
MaxBlocks == 3

\* two or more blocks "DAY", "name — r1-...-rk", in which a day may open more
\* than one block
RepeatBlocks ==
    UNION { [1..k -> [d : DayTokens,
                      e : {e \in RunExercises : e.k <= 2 /\ e.name # <<"zh", "-", "zh">>}]] :
              k \in 2..MaxBlocks }

RepeatText(bs) ==
    Join([i \in 1..Len(bs) |-> bs[i].d.token \o <<"LF">> \o RunText(bs[i].e)], <<"LF">>)

RepeatInputs ==
    { [form |-> "repeat", parts |-> bs, text |-> RepeatText(bs)] : bs \in RepeatBlocks }

ProgramTexts ==
    InlineInputs \cup BlockInputs \cup MixedInputs \cup HeaderInputs \cup OtherInputs
        \cup RepeatInputs

\* parse_program is called with the text and returns
CallParseProgram ==
    /\ ~parser_out.done
    /\ parser_out' = [done |-> TRUE, value |-> parse_program(parser_in.text)]
    /\ UNCHANGED <<workout_creation_sessions, parser_in, today, fsm, temp_programs, training_sessions,
                   button_training_sessions, results, button_workout_results,
                   reply, store>>

NextParser == CallParseProgram

InitParser ==
    /\ Booted
    /\ today = "Monday"
    /\ parser_in \in ProgramTexts
    /\ parser_out = NoCall

SpecParser == InitParser /\ [][NextParser]_vars

\* the call has returned the schedule
Returned(program) ==
    /\ parser_out.done
    /\ parser_out.value = [ok |-> TRUE, program |-> program]

\* the entries the counted exercises of a list stand for
CountedEntries(l) ==
    [i \in 1..Len(l) |-> [exercise |-> l[i].name, sets |-> DecVal(l[i].count)]]

\* -------------------------------------------------------------------- C21
\* C21: a single line "DAY: name1 N1xR1, name2 N2xR2" parses to a schedule
\* with exactly that day, holding the exercises in the order of the line with
\* the set counts N1, N2.
C21_InlineLineParses ==
    (parser_in.form = "inline" /\ parser_out.done) =>
        Returned(parser_in.parts[1].day :> CountedEntries(parser_in.parts[2]))

\* "ПН: ж н 3x10, ж 12х10" has been parsed to Monday: (ж н, 3), (ж, 12)
C21_Witness ==
    /\ parser_in.text = <<"P", "N", ":", " ", "zh", " ", "en", " ", "3", "x", "1", "0",
                          ",", " ", "zh", " ", "1", "2", "kh", "1", "0">>
    /\ parser_out.done
    /\ parser_out.value.ok
    /\ DOMAIN parser_out.value.program = {"Monday"}
    /\ parser_out.value.program["Monday"]
          = << [exercise |-> <<"zh", " ", "en">>, sets |-> 3],
               [exercise |-> <<"zh">>, sets |-> 12] >>

\* -------------------------------------------------------------------- C22
\* C22: a text of k >= 2 blocks "DAY_i: exercises" for distinct days parses
\* to a schedule with all k days, each with the exercises of its own block,
\* whether the blocks are separated by ";" or by line feeds.
C22_EveryBlockParses ==
    (parser_in.form = "blocks" /\ parser_out.done) =>
        LET bs == parser_in.parts
        IN  Returned([day \in {bs[i].d.day : i \in 1..Len(bs)} |->
                         LET i == CHOOSE i \in 1..Len(bs) : bs[i].d.day = day
                         IN  CountedEntries(<<bs[i].e>>)])

\* -------------------------------------------------------------------- C23
\* C23: in the pass over the lines, a line "DAY: exercises" puts its
\* exercises into the result under that day and leaves the open day as it
\* was: the exercise lines after it are appended to the day opened before it.
C23_InlineLineKeepsOpenDay ==
    (parser_in.form = "mixed" /\ parser_out.done) =>
        LET m == parser_in.parts
        IN  Returned((m.open.day :> CountedEntries(<<m.before, m.after>>))
                        @@ (m.inline.day :> CountedEntries(<<m.listed>>)))

\* -------------------------------------------------------------------- C24
\* C24: a day header line (the day token, with or without a label) followed by
\* exercise lines "name — r1-r2-...-rk" parses to a schedule with exactly that
\* day, one entry per line in the order of the lines, with k as set count.
C24_HeaderAndRunsParse ==
    (parser_in.form = "header" /\ parser_out.done) =>
        LET h == parser_in.parts[1]
            l == parser_in.parts[2]
        IN  Returned(h.d.day :> [i \in 1..Len(l) |->
                                    [exercise |-> l[i].name, sets |-> l[i].k]])

\* "ПТ жн / ж-ж — 20-16-8-20 / ж н — 20-16-8" has been parsed to Friday:
\* (ж-ж, 4), (ж н, 3)
C24_Witness ==
    /\ parser_in.text = <<"P", "T", " ", "zh", "en", "LF",
                          "zh", "-", "zh", " ", "EM", " ",
                          "2", "0", "-", "1", "6", "-", "8", "-", "2", "0", "LF",
                          "zh", " ", "en", " ", "EM", " ",
                          "2", "0", "-", "1", "6", "-", "8">>
    /\ parser_out.done
    /\ parser_out.value.ok
    /\ DOMAIN parser_out.value.program = {"Friday"}
    /\ parser_out.value.program["Friday"]
          = << [exercise |-> <<"zh", "-", "zh">>, sets |-> 4],
               [exercise |-> <<"zh", " ", "en">>, sets |-> 3] >>

\* -------------------------------------------------------------------- C26
\* C26: a text with no day token and no exercise pattern (no separator, no
\* number), such as "hello", makes parse_program raise ValueError.
C26_PlainTextIsRejected ==
    (parser_in.form = "plain" /\ parser_out.done) => ~parser_out.value.ok

\* -------------------------------------------------------------------- C27
\* C27: when parse_program returns, every day of the schedule has at least
\* one exercise.
C27_NoDayWithoutExercise ==
    (parser_out.done /\ parser_out.value.ok) =>
        \A d \in DOMAIN parser_out.value.program :
            Len(parser_out.value.program[d]) >= 1

\* -------------------------------------------------------------------- C28
\* C28: every entry of a schedule parse_program returns has a name that is
\* not empty and a set count of at least 1.
C28_EntriesAreNamedAndCounted ==
    (parser_out.done /\ parser_out.value.ok) =>
        \A d \in DOMAIN parser_out.value.program :
            \A i \in 1..Len(parser_out.value.program[d]) :
                /\ Len(parser_out.value.program[d][i].exercise) >= 1
                /\ parser_out.value.program[d][i].sets >= 1

\* ------------------------------------------- calls of parse_sets_from_exercise
\* the most parts a description is made of
MaxParts == 3

\* the parts of a description: "NxM", a run "r1-...-rk", a lone integer, a
\* word, a comment in parentheses; sets is the count the part stands for
DescriptionParts ==
    {[kind |-> "times", sets |-> DecVal(c), text |-> c \o <<g, "1", "0">>] :
        c \in {<<"3">>, <<"1", "2">>}, g \in {"x", "kh"}}
    \cup {[kind |-> "run", sets |-> k,
           text |-> Join([i \in 1..k |-> RunNumbers[((i - 1) % Len(RunNumbers)) + 1]], <<"-">>)] :
             k \in 2..MaxRun}
    \cup {[kind |-> "number", sets |-> 1, text |-> <<"8">>],
          [kind |-> "word", sets |-> 1, text |-> <<"zh">>],
          [kind |-> "comment", sets |-> 1, text |-> <<"(", "4", "x", "1", "0", ")">>],
          [kind |-> "comment", sets |-> 1, text |-> <<"(", "5", "-", "5", "-", "5", ")">>]}

\* the descriptions: up to MaxParts parts with one space between them
Descriptions ==
    {[form |-> "sets", parts |-> ps,
      text |-> Join([i \in 1..Len(ps) |-> ps[i].text], <<" ">>)] :
        ps \in SeqsUpTo(DescriptionParts, MaxParts)}

\* one call parse_sets_from_exercise(parser_in.text)
CallParseSets ==
    /\ ~parser_out.done
    /\ parser_out' = [done |-> TRUE, value |-> parse_sets_from_exercise(parser_in.text)]
    /\ UNCHANGED <<workout_creation_sessions, parser_in, today, fsm, temp_programs, training_sessions,
                   button_training_sessions, results, button_workout_results,
                   reply, store>>

NextSets == CallParseSets

InitSets ==
    /\ Booted
    /\ today = "Monday"
    /\ parser_in \in Descriptions
    /\ parser_out = NoCall

SpecSets == InitSets /\ [][NextSets]_vars

\* the parts of the description of one kind, comments apart
PartsOfKind(kind) ==
    SelectSeq(parser_in.parts, LAMBDA part : part.kind = kind)

\* -------------------------------------------------------------------- C25
\* C25: the set count of a description follows the priority: with an "NxM"
\* (Latin or Cyrillic glyph) it is N; otherwise, with a hyphen-delimited run
\* of at least two integers, it is the number of integers of that run;
\* otherwise it is 1; a comment in parentheses never changes the result.
\* (Stated for descriptions with at most one "NxM" and one run outside
\* comments, where the priority names one value.)
C25_SetCountPriority ==
    (/\ parser_in.form = "sets"
     /\ parser_out.done
     /\ Len(PartsOfKind("times")) <= 1
     /\ Len(PartsOfKind("run")) <= 1) =>
        parser_out.value =
            IF Len(PartsOfKind("times")) = 1 THEN PartsOfKind("times")[1].sets
            ELSE IF Len(PartsOfKind("run")) = 1 THEN PartsOfKind("run")[1].sets
            ELSE 1

\* -------------------------------------------------------------------- C29
\* C29: with the routers in the order of main.py, for a user who has a
\* schedule session and no button session (and no FSM state), a numeric
\* weight message with a positive number is processed by training.py: one
\* observation with that weight is written for the user and the schedule
\* cursor advances; a tap on confirm_weight with a recorded weight for the set
\* under the cursor likewise writes one observation and advances the cursor.
C29_UpdatesReachTrainingHandlers ==
    [][\A u \in Users :
          (ScheduleOnly(u) /\ fsm[u].state = "none") =>
              /\ \A t \in PositiveTexts :
                    (MatchesWeightRegex(t) /\ MessageUpdate(u, t)) =>
                        /\ AppendsOne(results, results')
                        /\ results'[Len(results')].user_id = u
                        /\ results'[Len(results')].weight = WeightOf(t)
                        /\ training_sessions' # training_sessions
              /\ ((\E w \in ScheduleHistory(u) : Truthy(w))
                      /\ CallbackUpdate(u, "confirm_weight", 0)) =>
                        /\ AppendsOne(results, results')
                        /\ results'[Len(results')].user_id = u
                        /\ training_sessions' # training_sessions]_vars

\* ------------------------------------------------- users who keep answering
\* the weights a user answers a prompt with
AnswerTexts == { <<"6", "0">>, <<"6", "2", ".", "5">> }

\* user u has recorded nothing since the start of the bot
NoRowsOf(u) ==
    /\ \A i \in 1..Len(results) : results[i].user_id # u
    /\ \A i \in (Len(SeedButtonResults) + 1)..Len(button_workout_results) :
          button_workout_results[i].user_id # u

\* a user without session who has not trained yet taps a program
BeginProgram(U) ==
    \E u \in U, p \in ProgramIds :
        /\ ~HasCursor(u)
        /\ NoRowsOf(u)
        /\ CallbackUpdate(u, "select_program", p)

\* a user without session who has not trained yet taps a button workout
BeginWorkout(U) ==
    \E u \in U, n \in WorkoutNumbers :
        /\ ~HasCursor(u)
        /\ NoRowsOf(u)
        /\ CallbackUpdate(u, "select_workout", n)

\* user u, in a session, answers the prompt with a positive weight
AnswerPrompt(u) ==
    /\ HasCursor(u)
    /\ \E t \in AnswerTexts : MessageUpdate(u, t)

NextAnswers ==
    \/ BeginProgram(Users)
    \/ BeginWorkout(Users)
    \/ \E u \in Users : AnswerPrompt(u)

InitAnswers == Init

\* every user in a session keeps answering the prompts
SpecAnswers ==
    /\ InitAnswers
    /\ [][NextAnswers]_vars
    /\ \A u \in Users : WF_vars(AnswerPrompt(u))

\* the session of user u is over and the bot has said so
Completed(u) ==
    /\ ~HasCursor(u)
    /\ reply.to = u
    /\ reply.msgs # <<>>
    /\ LastMsg(reply).tag = "complete"

\* -------------------------------------------------------------------- C30
\* C30: every session completes when the user keeps answering: whenever a
\* user has a session, started from a program or from a button workout, and
\* answers every prompt with a positive weight, the cursor is eventually
\* removed and the completion message is sent.
C30_SessionsComplete ==
    \A u \in Users : HasCursor(u) ~> Completed(u)

\* -------------------------------------------------------------------- C31
\* the step writes an observation of user u, who is in a schedule session,
\* under the key of the slot at the cursor's position in the flattened
\* sequence (e_1,1), ..., (e_1,s_1), (e_2,1), ..., (e_m,s_m), and leaves the
\* cursor on the next position, or removes it after the last one
WritesSlotsInOrder(u) ==
    LET session == training_sessions[u]
        slots   == SlotsOf(session.exercises)
        p       == Position(session)
        row     == results'[Len(results')]
    IN  /\ p \in 1..Len(slots)
        /\ row.exercise = slots[p].exercise
        /\ row.set_number = slots[p].set_number
        /\ (u \notin DOMAIN training_sessions') <=> (p = Len(slots))
        /\ u \in DOMAIN training_sessions' =>
              /\ training_sessions'[u].exercises = session.exercises
              /\ Position(training_sessions'[u]) = p + 1

\* C31: in a schedule session over exercises e_1..e_m with set counts
\* s_1..s_m the successive records are written under (e_1,1), ..., (e_1,s_1),
\* (e_2,1), ..., (e_m,s_m) in this order: a session starts on the first of
\* these keys, and every record is written under the key the cursor is on and
\* moves the cursor to the key that follows, so that no key is written twice
\* or left out.
C31_RecordsFollowFlattenedOrder ==
    [][\A u \in Users :
          /\ (Answers(u, "training_started") /\ u \in DOMAIN training_sessions'
                  /\ results' = results /\ button_training_sessions' = button_training_sessions)
                => Position(training_sessions'[u]) = 1
          /\ (u \in DOMAIN training_sessions /\ WroteFor(u, results, results'))
                => WritesSlotsInOrder(u)]_vars

\* -------------------------------------------------------------------- C32
\* cursor s2 is cursor s moved on by one set, or to the first set (numbered
\* first) of the next exercise
OneSlotOn(s, s2, first) ==
    /\ s2.exercises = s.exercises
    /\ \/ s2.current_ex = s.current_ex /\ s2.current_set = s.current_set + 1
       \/ s2.current_ex = s.current_ex + 1 /\ s2.current_set = first

\* the cursor of user u in the table is as before, or one slot further, or
\* removed
AtMostOneSlotOn(sessions, sessions2, u, first) ==
    IF u \notin DOMAIN sessions THEN u \notin DOMAIN sessions2
    ELSE \/ u \notin DOMAIN sessions2
         \/ sessions2[u] = sessions[u]
         \/ OneSlotOn(sessions[u], sessions2[u], first)

\* the cursor of user u in the table is not as it was
Moved(sessions, sessions2, u) ==
    /\ u \in DOMAIN sessions
    /\ u \in DOMAIN sessions2 => sessions2[u] # sessions[u]

\* C32: one text message of a user writes at most one observation, over both
\* tables, and moves at most one of the user's cursors, by at most one slot,
\* whatever the FSM state of the user and whichever sessions the user has: no
\* two of the handlers process the same message.
C32_OneMessageOneRecord ==
    [][\A u \in Users, t \in WeightTexts :
          MessageUpdate(u, t) =>
              /\ Len(results') + Len(button_workout_results')
                    <= Len(results) + Len(button_workout_results) + 1
              /\ Len(results') >= Len(results)
              /\ Len(button_workout_results') >= Len(button_workout_results)
              /\ AtMostOneSlotOn(training_sessions, training_sessions', u, 1)
              /\ AtMostOneSlotOn(button_training_sessions, button_training_sessions', u, 0)
              /\ ~(/\ Moved(training_sessions, training_sessions', u)
                   /\ Moved(button_training_sessions, button_training_sessions', u))]_vars

\* user 1, with a schedule cursor, a button cursor and the FSM state
\* waiting_for_weight, has sent a number: one observation was written
C32_Witness ==
    /\ reply.to = 1
    /\ reply.msgs # <<>>
    /\ reply.msgs[1].tag = "saved"
    /\ 1 \in DOMAIN training_sessions
    /\ 1 \in DOMAIN button_training_sessions
    /\ fsm[1].state = "waiting_for_weight"
    /\ Len(results) + Len(button_workout_results) = Len(SeedButtonResults) + 1

\* -------------------------------------------------------------------- C33
\* the numbers of the workouts a user builds with the buttons
BuiltNumbers == {1, 2}

\* the second workout a user creates shares the exercise Squat with workout
\* 1 and with the schedule
SecondWorkouts ==
    [workout_number : {2}, workout_name : WorkoutNames, exercises : WorkoutLists]

TapSelectBuilt(U) ==
    \E u \in U, n \in BuiltNumbers : CallbackUpdate(u, "select_workout", n)

\* one user trains by two button-built workouts and by the schedule
NextWorkouts ==
    \/ CreateWorkout(Solo, SecondWorkouts)
    \/ TapSelectBuilt(Solo)
    \/ TapSelectProgram(Solo)
    \/ SendText(Solo, UsersTexts, MaxWrites)
    \/ TapConfirmWeight(Solo, MaxWrites)
    \/ TapChangeWeight(Solo)
    \/ TapEndTraining(Solo)

InitWorkouts == Init /\ today = "Monday"

SpecWorkouts == InitWorkouts /\ [][NextWorkouts]_vars

\* the weights of the rows of rows that match key and carry the latest date
\* among them, as a prompt shows them
Offered(rows, Key(_)) ==
    LET idx == {i \in 1..Len(rows) : Key(rows[i])}
    IN  {IF Truthy(rows[i].weight) THEN rows[i].weight ELSE NULL :
            i \in {j \in idx : \A h \in idx : rows[h].date <= rows[j].date}}

\* every prompt of the answer offers what ws(exercise, set) holds, and
\* nothing when it holds nothing
PromptsOffer(msgs, Ws(_, _)) ==
    \A i \in 1..Len(msgs) :
        msgs[i].tag = "prompt" =>
            LET ws == Ws(msgs[i].exercise, msgs[i].set_number)
            IN  IF ws = {} THEN msgs[i].weight = NULL ELSE msgs[i].weight \in ws

\* the prompts sent to u in this step offer weights recorded for the workout
\* number of u's button session, the exercise and the set
ButtonPromptsScoped(u) ==
    LET Ws(e, k) ==
            LET Key(r) == /\ r.user_id = u
                          /\ r.workout_number = button_training_sessions'[u].workout_number
                          /\ r.exercise_name = e
                          /\ r.set_number = k
            IN  Offered(button_workout_results', Key)
    IN  PromptsOffer(reply'.msgs, Ws)

\* the prompts sent to u in this step offer weights of table results
SchedulePromptsScoped(u) ==
    LET Ws(e, k) ==
            LET Key(r) == r.user_id = u /\ r.exercise = e /\ r.set_number = k
            IN  Offered(results', Key)
    IN  PromptsOffer(reply'.msgs, Ws)

\* C33: the weight history of button-built workouts is scoped by workout
\* number and kept apart from the history of the schedule: a prompt of a button
\* session offers the most recent weight recorded for (user, workout number
\* of the session, exercise, set) and none when there is no such record,
\* whatever is recorded for the same exercise and set under another workout
\* number or in table results; a prompt of a schedule session offers a
\* weight of table results only.
C33_HistoriesAreScoped ==
    [][\A u \in Users :
          /\ \A n \in BuiltNumbers :
                CallbackUpdate(u, "select_workout", n) => ButtonPromptsScoped(u)
          /\ CallbackUpdate(u, "confirm_weight", 0) => ButtonPromptsScoped(u)
          /\ \A t \in UsersTexts :
                MessageUpdate(u, t) =>
                    IF MessageHandler(u, t) = "process_button_workout_weight"
                    THEN ButtonPromptsScoped(u)
                    ELSE SchedulePromptsScoped(u)
          /\ \A p \in ProgramIds :
                CallbackUpdate(u, "select_program", p) => SchedulePromptsScoped(u)]_vars

\* workout 2 prompts for (Squat, 1) without a default, while a weight is
\* recorded for (Squat, 1) under workout 1 and another in table results
C33_Witness ==
    /\ 1 \in DOMAIN button_training_sessions
    /\ button_training_sessions[1].workout_number = 2
    /\ reply.to = 1
    /\ reply.msgs # <<>>
    /\ LastMsg(reply) = Prompt("Squat", 1, NULL)
    /\ \E i \in 1..Len(results) :
          /\ results[i].user_id = 1
          /\ results[i].exercise = "Squat"
          /\ results[i].set_number = 1
    /\ \E i \in 1..Len(button_workout_results) :
          /\ button_workout_results[i].workout_number = 1
          /\ button_workout_results[i].exercise_name = "Squat"
          /\ button_workout_results[i].set_number = 1

\* -------------------------------------------------------------------- C34
\* the workout of the runs with restarts
RestartSessions == {s \in CreationSessions : s.exercises[1].exercise = "Squat"}

EnterExercises(U) ==
    \E u \in U, session \in RestartSessions : process_exercises(u, session)

TapConfirmWorkout(U) == \E u \in U : confirm_workout(u, workout_creation_sessions)

\* the text of the runs with restarts: a weight, a program name or a program
RestartTexts == { <<"+", "6", "0">> }

\* the first user creates workouts, trains, uploads a program and restarts
\* the bot, while the second starts sessions and the upload dialogue
NextRestart ==
    \/ EnterExercises(Solo)
    \/ TapConfirmWorkout(Solo)
    \/ TapSelectWorkout(Solo)
    \/ TapSelectProgram(Users)
    \/ TapUploadMode(Users)
    \/ TapChangeWeight(Solo)
    \/ SendText(Solo, RestartTexts, MaxWritesUsers)
    \/ TapRestart(Solo)

InitRestart == Init /\ today = "Monday"

SpecRestart == InitRestart /\ [][NextRestart]_vars

\* nothing the bot keeps for user v changes in the step
KeepsStateOf(v) ==
    /\ fsm'[v] = fsm[v]
    /\ SameEntry(workout_creation_sessions, workout_creation_sessions', v)
    /\ SameEntry(button_training_sessions, button_training_sessions', v)
    /\ SameEntry(training_sessions, training_sessions', v)
    /\ SameEntry(temp_programs, temp_programs', v)

\* C34: after restart_bot for user u, u has no FSM state, no workout-creation
\* session, no button session, no schedule session and no pending parsed
\* program; the stored programs and workouts, the recorded weights and the
\* state of every other user are as before.
C34_RestartClearsOnlyTheUser ==
    [][\A u \in Users :
           (MessageHandler(u, RestartText) = "restart_bot" /\ MessageUpdate(u, RestartText))
               => /\ fsm'[u] = Cleared
                  /\ u \notin DOMAIN workout_creation_sessions'
                  /\ u \notin DOMAIN button_training_sessions'
                  /\ u \notin DOMAIN training_sessions'
                  /\ u \notin DOMAIN temp_programs'
                  /\ UNCHANGED <<results, button_workout_results, store>>
                  /\ \A v \in Users \ {u} : KeepsStateOf(v)]_vars

\* user 1 has restarted the bot while user 2 has a session and an open
\* dialogue, and a weight is recorded
C34_Witness ==
    /\ reply = Sent(1, <<Msg("restarted")>>)
    /\ fsm[1] = Cleared
    /\ 1 \notin DOMAIN training_sessions
    /\ 2 \in DOMAIN training_sessions
    /\ fsm[2].state # "none"
    /\ Len(results) >= 1

\* -------------------------------------------------------------------- C35
\* the texts of the runs with statistics: a weight and a lower one
StatsTexts == { <<"+", "6", "0">>, <<"+", "5", "0">> }

SendStats(U) == \E u \in U : MessageUpdate(u, StatsCommand)

\* one user trains by the schedule, more than once, and asks for statistics
NextStats ==
    \/ TapSelectProgram(Solo)
    \/ TapChangeWeight(Solo)
    \/ SendText(Solo, StatsTexts, MaxWrites)
    \/ SendStats(Solo)

SpecStats == Init /\ [][NextStats]_vars

\* the set numbers user u has rows of exercise e for
RecordedSets(u, e) ==
    {results[i].set_number : i \in {j \in 1..Len(results) :
                                       results[j].user_id = u /\ results[j].exercise = e}}

\* w is the maximum, over the sets of exercise e, of a most recent weight of
\* each set (rows of one second are each the most recent)
IsMaxOfMostRecent(u, e, w) ==
    /\ \E k \in RecordedSets(u, e) : w \in LatestOfKey(u, e, k)
    /\ \A k \in RecordedSets(u, e) : \E v \in LatestOfKey(u, e, k) : v <= w

\* C35: the statistics show, for each exercise the user has results for, the
\* maximum over the exercise's set numbers of the most recent weight recorded
\* for each set, so that a newer lower weight of a set replaces an older
\* higher one.
C35_StatsAreMaxOfMostRecent ==
    \A i \in 1..Len(reply.msgs) :
        reply.msgs[i].tag = "stats" =>
            IsMaxOfMostRecent(reply.to, reply.msgs[i].exercise, reply.msgs[i].weight)

\* -------------------------------------------------------------------- C36
\* C36: at every moment a user has at most one active session: no reachable
\* state has an entry of the same user in training_sessions and in
\* button_training_sessions.
C36_OneActiveSession ==
    \A u \in Users :
        ~(u \in DOMAIN training_sessions /\ u \in DOMAIN button_training_sessions)

\* -------------------------------------------------------------------- C37
\* the cursor of a schedule session is on a set of one of its exercises
OnScheduleSlot(session) ==
    /\ 0 <= session.current_ex
    /\ session.current_ex < Len(session.exercises)
    /\ 1 <= session.current_set
    /\ session.current_set <= session.exercises[session.current_ex + 1].sets

\* the cursor of a button session is on a set of one of its exercises
OnButtonSlot(session) ==
    /\ 0 <= session.current_ex
    /\ session.current_ex < Len(session.exercises)
    /\ 0 <= session.current_set
    /\ session.current_set < Len(session.exercises[session.current_ex + 1].sets)

\* C37: between two handler invocations every session cursor points at a
\* valid slot: in a schedule session 0 <= current_ex < number of exercises and
\* 1 <= current_set <= set count of the exercise; in a button session
\* 0 <= current_ex < number of exercises and 0 <= current_set < number of
\* sets of the exercise.
C37_CursorOnValidSlot ==
    \A u \in Users :
        /\ u \in DOMAIN training_sessions => OnScheduleSlot(training_sessions[u])
        /\ u \in DOMAIN button_training_sessions
              => OnButtonSlot(button_training_sessions[u])

\* -------------------------------------------------------------------- C38
\* exercises in the formats of the legacy parser: "name NxR", bare "name N",
\* "name NxМАКС" and "name Nxmax"
LegacyExercises ==
    [name : { <<"zh">>, <<"zh", " ", "en">> },
     count : { <<"3">>, <<"1", "2">> },
     reps : { <<"x", "1", "0">>, <<>>, <<"x", "ME", "AH", "KA", "ES">>,
              <<"x", "m", "a", "x">> }]

LegacyExerciseText(e) == e.name \o <<" ">> \o e.count \o e.reps

\* "DAY: exercise, exercise"
LegacyBlockText(d, l) ==
    d.token \o <<":", " ">> \o ListText(l, LegacyExerciseText, <<",", " ">>)

\* one block, and two blocks of "name NxR" for distinct days separated by
\* "; " or by a line feed
LegacyTexts ==
    { [form |-> "block", parts |-> <<d, l>>, text |-> LegacyBlockText(d, l)] :
        d \in DayTokens, l \in SeqsUpTo(LegacyExercises, MaxExercises) }
    \cup
    { [form |-> "blocks", parts |-> b,
       text |-> LegacyBlockText(b[1], <<b[2]>>) \o b[3] \o LegacyBlockText(b[4], <<b[5]>>)] :
        b \in { b \in DayTokens \X LegacyExercises \X { <<";", " ">>, <<"LF">> }
                        \X DayTokens \X LegacyExercises :
                   b[1] # b[4] /\ b[2].reps = <<"x", "1", "0">> /\ b[5] = b[2] } }

\* both parsers are called with the text and return
CallBothParsers ==
    /\ ~parser_out.done
    /\ parser_out' = [done |-> TRUE, value |-> parse_program(parser_in.text),
                      legacy |-> legacy_parse_program(parser_in.text)]
    /\ UNCHANGED <<workout_creation_sessions, parser_in, today, fsm, temp_programs,
                   training_sessions, button_training_sessions, results,
                   button_workout_results, reply, store>>

InitLegacy ==
    /\ Booted
    /\ today = "Monday"
    /\ parser_in \in LegacyTexts
    /\ parser_out = NoCall

SpecLegacy == InitLegacy /\ [][CallBothParsers]_vars

\* C38: the current parser refines the legacy parser: for every text the
\* legacy parse_program accepts, the current parse_program returns the same
\* schedule, the same days with the same sequence of (exercise name, set
\* count), also for exercises written `name N` and `name NxМАКС`.
C38_CurrentRefinesLegacy ==
    (parser_out.done /\ parser_out.legacy.ok) => parser_out.value = parser_out.legacy

\* -------------------------------------------------------------------- C39
\* the exercises the lines of the blocks bs are parsed as, in input order
RECURSIVE LinesOfDay(_, _)
LinesOfDay(bs, day) ==
    IF Len(bs) = 0 THEN <<>>
    ELSE (IF Head(bs).d.day = day
          THEN <<EntryOf(parse_exercise_line(RunText(Head(bs).e)))>>
          ELSE <<>>) \o LinesOfDay(Tail(bs), day)

\* every exercise line of the blocks, under the day that was open when it
\* was read
KeptByDay(bs) ==
    [day \in {bs[i].d.day : i \in 1..Len(bs)} |-> LinesOfDay(bs, day)]

\* C39: the line-by-line pass loses no parsed exercise: every line parsed as
\* an exercise is in the returned schedule under the day that was open when
\* it was read, in input order, also when one day token opens more than one
\* block of the text.
C39_LinePassKeepsEveryExercise ==
    (parser_in.form = "repeat" /\ parser_out.done) =>
        Returned(KeptByDay(parser_in.parts))

\* -------------------------------------------------------------------- C40
\* the step leaves every row of table programs that is not a row of program
\* p owned by u as it is
OtherEntriesKept(u, p) ==
    LET Other(r) == ~(r.user_id = u /\ r.program_id = p)
    IN  SelectSeq(programs', Other) = SelectSeq(programs, Other)

\* the step leaves every row of workout_programs but that of program p owned
\* by u as it is
OtherProgramsKept(u, p) ==
    LET Other(r) == ~(r.user_id = u /\ r.id = p)
    IN  SelectSeq(workout_programs', Other) = SelectSeq(workout_programs, Other)

\* every entry get_program_by_id(u, p, d) returns from progs is a row of
\* program p owned by u
ReturnsOwnEntries(progs, u, p, d) ==
    LET program == get_program_by_id(progs, u, p, d)
    IN  \A day \in DOMAIN program : \A i \in 1..Len(program[day]) :
            \E j \in 1..Len(progs) :
                /\ progs[j].id = program[day][i].exercise_id
                /\ progs[j].user_id = u
                /\ progs[j].program_id = p

\* C40: the schedule operations are scoped to their owner and program:
\* save_program_with_id(user, P, ...) and delete_workout_program(user, P)
\* change only rows of program P owned by that user, leaving the metadata and
\* the entries of every other program of the user and of every program of
\* other users as they are, and get_program_by_id(user, P) returns no entry
\* owned by another user.
C40_StoreOperationsAreScoped ==
    [][\A u \in Users, p \in ProgramIds :
          /\ \A schedule \in ParsedSchedules :
                SaveProgramOf(u, p, schedule)
                    => /\ OtherEntriesKept(u, p)
                       /\ workout_programs' = workout_programs
          /\ delete_program_callback(u, p)
                => /\ OtherEntriesKept(u, p)
                   /\ OtherProgramsKept(u, p)
          /\ \A d \in StoreDays \cup {""} : ReturnsOwnEntries(programs', u, p, d)]_vars

\* user 1 has saved a schedule under the id of the program of user 2, whose
\* row of workout_programs and whose entries are still there
C40_Witness ==
    /\ sqlite_sequence.programs > Len(SeedPrograms)
    /\ \E i \in 1..Len(programs) : programs[i].user_id = 1 /\ programs[i].program_id = 2
    /\ \E i \in 1..Len(programs) : programs[i].user_id = 2 /\ programs[i].program_id = 2
    /\ \E i \in 1..Len(workout_programs) :
          workout_programs[i].user_id = 2 /\ workout_programs[i].id = 2

=============================================================================
